---- MODULE Spec2Model ----
(***************************************************************************)
(* Model of the price / mental-health data pipeline:                       *)
(*   01_precos_psic_saude_mental_prep.py   (unify and aggregate prices)     *)
(*   02_mentais_merge_exemplo.py           (join with 2023 notifications)   *)
(*   02_mentais_merge_multi_anos.py        (join with 2020-2024)            *)
(*                                                                         *)
(* Text is a sequence of one-character strings, so that strip / lower /    *)
(* upper / zfill / startswith are computed character by character.  A     *)
(* missing value (pandas NaN) of a text column is the one-element          *)
(* sequence NaN, whose element is no character.                            *)
(***************************************************************************)
EXTENDS Integers, Sequences, FiniteSets, TLC

(***************************************************************************)
(* Text helpers                                                            *)
(***************************************************************************)
NaN == << "NaN" >>

isna(x) == x = NaN

\* str(NaN) as pandas' astype(str) renders it
NanText == << "n", "a", "n" >>

IsSpace(c) == c = " "

RECURSIVE LStrip(_)
LStrip(s) ==
    IF s = << >> THEN << >>
    ELSE IF IsSpace(Head(s)) THEN LStrip(Tail(s)) ELSE s

RECURSIVE RStrip(_)
RStrip(s) ==
    IF s = << >> THEN << >>
    ELSE IF IsSpace(s[Len(s)]) THEN RStrip(SubSeq(s, 1, Len(s) - 1)) ELSE s

\* str.strip()
Strip(s) == RStrip(LStrip(s))

\* the letters str.lower() and str.upper() map to each other
Minusculas ==
    <<
       "a", "b", "c", "d", "e", "f", "g", "h", "i", "j", "k", "l", "m",
       "n", "o", "p", "q", "r", "s", "t", "u", "v", "w", "x", "y", "z",
       "á", "à", "â", "ã", "é", "ê", "í", "ó", "ô", "õ", "ú", "ç" >>

Maiusculas ==
    <<
       "A", "B", "C", "D", "E", "F", "G", "H", "I", "J", "K", "L", "M",
       "N", "O", "P", "Q", "R", "S", "T", "U", "V", "W", "X", "Y", "Z",
       "Á", "À", "Â", "Ã", "É", "Ê", "Í", "Ó", "Ô", "Õ", "Ú", "Ç" >>

\* str.lower() on one character
LowerChar(c) ==
    IF \E i \in 1..Len(Maiusculas) : Maiusculas[i] = c
    THEN Minusculas[CHOOSE i \in 1..Len(Maiusculas) : Maiusculas[i] = c]
    ELSE c

\* str.upper() on one character
UpperChar(c) ==
    IF \E i \in 1..Len(Minusculas) : Minusculas[i] = c
    THEN Maiusculas[CHOOSE i \in 1..Len(Minusculas) : Minusculas[i] = c]
    ELSE c

Lower(s) == [i \in 1..Len(s) |-> LowerChar(s[i])]

Upper(s) == [i \in 1..Len(s) |-> UpperChar(s[i])]

\* unicodedata.normalize("NFD", c) with the combining marks (category Mn) removed
BaseChar(c) ==
    LET acentuadas == << "á", "à", "â", "ã", "é", "ê", "í", "ó", "ô", "õ", "ú", "ç", "Á", "À", "Â", "Ã", "É", "Ê", "Í", "Ó", "Ô", "Õ", "Ú", "Ç" >>
        bases == << "a", "a", "a", "a", "e", "e", "i", "o", "o", "o", "u", "c", "A", "A", "A", "A", "E", "E", "I", "O", "O", "O", "U", "C" >>
    IN IF \E i \in 1..Len(acentuadas) : acentuadas[i] = c
       THEN bases[CHOOSE i \in 1..Len(acentuadas) : acentuadas[i] = c]
       ELSE c

StripAccents(s) == [i \in 1..Len(s) |-> BaseChar(s[i])]

\* s.split(): the maximal runs of non-whitespace characters
RECURSIVE SplitWords(_, _)
SplitWords(s, cur) ==
    IF s = << >> THEN (IF cur = << >> THEN << >> ELSE << cur >>)
    ELSE IF IsSpace(Head(s))
         THEN (IF cur = << >> THEN << >> ELSE << cur >>) \o SplitWords(Tail(s), << >>)
         ELSE SplitWords(Tail(s), Append(cur, Head(s)))

\* " ".join(words)
RECURSIVE JoinWords(_)
JoinWords(ws) ==
    IF ws = << >> THEN << >>
    ELSE IF Len(ws) = 1 THEN ws[1]
    ELSE ws[1] \o << " " >> \o JoinWords(Tail(ws))

\* s.replace("  ", " "): each pair of spaces, left to right, becomes one
RECURSIVE ReplaceDuplo(_)
ReplaceDuplo(s) ==
    IF Len(s) < 2 THEN s
    ELSE IF IsSpace(s[1]) /\ IsSpace(s[2])
         THEN << " " >> \o ReplaceDuplo(SubSeq(s, 3, Len(s)))
         ELSE << s[1] >> \o ReplaceDuplo(Tail(s))

\* mutant of normalize_str: the whitespace collapsed by replace("  ", " ")
normalize_str_replace(s) ==
    IF isna(s) THEN << >>
    ELSE ReplaceDuplo(StripAccents(Lower(Strip(s))))

\* normalize_str: "" for a missing value, else strip, lower, drop accents,
\* collapse whitespace
normalize_str(s) ==
    IF isna(s) THEN << >>
    ELSE JoinWords(SplitWords(StripAccents(Lower(Strip(s))), << >>))

\* Series.astype(str) on a text (object) column: a missing value becomes "nan"
astype_str(s) == IF isna(s) THEN NanText ELSE s

\* s.startswith(prefix)
StartsWith(s, prefix) ==
    /\ Len(s) >= Len(prefix)
    /\ SubSeq(s, 1, Len(prefix)) = prefix

\* sub in s
Contains(s, sub) ==
    \E i \in 1..(Len(s) - Len(sub) + 1) : SubSeq(s, i, i + Len(sub) - 1) = sub

\* the sequences over S of length at most n
SeqsUpTo(S, n) == UNION {[1..k -> S] : k \in 0..n}

RECURSIVE SumSeq(_)
SumSeq(s) == IF s = << >> THEN 0 ELSE Head(s) + SumSeq(Tail(s))

(***************************************************************************)
(* Script 01: 01_precos_psic_saude_mental_prep.py                          *)
(***************************************************************************)

\* city names and state abbreviations used as text
SaoPaulo == << "S", "ã", "o", " ", "P", "a", "u", "l", "o" >>

RioDeJaneiro ==
    << "R", "i", "o", " ", "d", "e", " ", "J", "a", "n", "e", "i", "r", "o" >>

BeloHorizonte ==
    << "B", "e", "l", "o", " ", "H", "o", "r", "i", "z", "o", "n", "t", "e" >>

PortoAlegre == << "P", "o", "r", "t", "o", " ", "A", "l", "e", "g", "r", "e" >>

Salvador == << "S", "a", "l", "v", "a", "d", "o", "r" >>

\* a cidade_slug cell that is missing (NaN is a float, not a str)
SlugNaN == "<NaN>"

CITY_SLUG_TO_NAME_UF ==
    [slug \in {"sao-paulo-sp", "rio-de-janeiro-rj", "belo-horizonte-mg",
               "porto-alegre-rs", "salvador-ba"} |->
       CASE slug = "sao-paulo-sp" -> << SaoPaulo, << "S", "P" >> >>
         [] slug = "rio-de-janeiro-rj" -> << RioDeJaneiro, << "R", "J" >> >>
         [] slug = "belo-horizonte-mg" -> << BeloHorizonte, << "M", "G" >> >>
         [] slug = "porto-alegre-rs" -> << PortoAlegre, << "R", "S" >> >>
         [] slug = "salvador-ba" -> << Salvador, << "B", "A" >> >>]

\* the five input files in the order main concatenates them, with the
\* fonte / tipo_profissional columns their loaders add
ARQUIVOS ==
    << [fonte |-> "doctoralia", tipo_profissional |-> "psicologo"],
       [fonte |-> "doctoralia", tipo_profissional |-> "psiquiatra"],
       [fonte |-> "boaconsulta", tipo_profissional |-> "psicologo"],
       [fonte |-> "boaconsulta", tipo_profissional |-> "psiquiatra"],
       [fonte |-> "boaconsulta", tipo_profissional |-> "psicoterapeuta"] >>

Opini == << "o", "p", "i", "n", "i" >>

\* load_doctoralia_psicologos / load_doctoralia_psiquiatras /
\* load_boaconsulta_generic: the rows of file i with fonte and
\* tipo_profissional added; the Doctoralia loaders drop the "xx opiniões" rows
load_arquivo(rows, i) ==
    LET kept == IF ARQUIVOS[i].fonte = "doctoralia"
                THEN SelectSeq(rows,
                        LAMBDA r : ~Contains(Lower(astype_str(r.nome)), Opini))
                ELSE rows
    IN [k \in 1..Len(kept) |->
          [nome |-> kept[k].nome, preco |-> kept[k].preco,
           cidade |-> kept[k].cidade, uf |-> kept[k].uf,
           cidade_slug |-> kept[k].cidade_slug,
           fonte |-> ARQUIVOS[i].fonte,
           tipo_profissional |-> ARQUIVOS[i].tipo_profissional]]

\* pd.concat([...], ignore_index=True) of the five loaded files
concat_arquivos(arqs) ==
    load_arquivo(arqs[1], 1) \o load_arquivo(arqs[2], 2) \o load_arquivo(arqs[3], 3)
      \o load_arquivo(arqs[4], 4) \o load_arquivo(arqs[5], 5)

\* the slug branch of aplicar_municipio_oficial
slug_conhecido(slug) == slug # SlugNaN /\ slug \in DOMAIN CITY_SLUG_TO_NAME_UF

\* mutant of municipio_oficial_row: the raw cidade / uf win when present and
\* the table is only the fallback
municipio_oficial_row_raw_first(r) ==
    LET known == slug_conhecido(r.cidade_slug)
        cid == IF known /\ isna(r.cidade)
               THEN CITY_SLUG_TO_NAME_UF[r.cidade_slug][1] ELSE r.cidade
        uf0 == IF known /\ isna(r.uf)
               THEN CITY_SLUG_TO_NAME_UF[r.cidade_slug][2] ELSE r.uf
    IN [nome |-> r.nome, preco |-> r.preco, cidade |-> r.cidade, uf |-> r.uf,
        cidade_slug |-> r.cidade_slug, fonte |-> r.fonte,
        tipo_profissional |-> r.tipo_profissional,
        cidade_oficial |-> cid,
        uf_oficial |-> Strip(Upper(astype_str(uf0))),
        cidade_norm |-> normalize_str(cid)]

\* aplicar_municipio_oficial on one row: cidade_oficial, uf_oficial and
\* cidade_norm are added; uf_oficial is then rendered with astype(str),
\* upper-cased and stripped
municipio_oficial_row(r) ==
    LET known == slug_conhecido(r.cidade_slug)
        cid == IF known THEN CITY_SLUG_TO_NAME_UF[r.cidade_slug][1] ELSE r.cidade
        uf0 == IF known THEN CITY_SLUG_TO_NAME_UF[r.cidade_slug][2] ELSE r.uf
    IN [nome |-> r.nome, preco |-> r.preco, cidade |-> r.cidade, uf |-> r.uf,
        cidade_slug |-> r.cidade_slug, fonte |-> r.fonte,
        tipo_profissional |-> r.tipo_profissional,
        cidade_oficial |-> cid,
        uf_oficial |-> Strip(Upper(astype_str(uf0))),
        cidade_norm |-> normalize_str(cid)]

aplicar_municipio_oficial(df) == [k \in 1..Len(df) |-> municipio_oficial_row(df[k])]

\* mutant of to_numeric: a cell that is not a number becomes 0
to_numeric_zero(cell) ==
    IF cell.kind = "num" THEN [na |-> FALSE, v |-> cell.v] ELSE [na |-> FALSE, v |-> 0]

\* pd.to_numeric(errors="coerce") on a preco cell: a number stays, anything
\* else (text such as "a combinar", a missing cell) becomes NaN
to_numeric(cell) ==
    IF cell.kind = "num" THEN [na |-> FALSE, v |-> cell.v] ELSE [na |-> TRUE, v |-> 0]

\* mutant of dup_key: preco left out of the compared columns
dup_key_sem_preco(r) == << r.nome, r.cidade_oficial, r.uf_oficial, r.tipo_profissional >>

\* the columns drop_duplicates compares
dup_key(r) == << r.nome, r.cidade_oficial, r.uf_oficial, r.tipo_profissional, r.preco >>

\* mutant of drop_duplicates: the last row of each key is kept
drop_duplicates_keep_last(df) ==
    LET keep(i) == \A j \in (i + 1)..Len(df) : dup_key(df[j]) # dup_key(df[i])
        idx == {i \in 1..Len(df) : keep(i)}
        RECURSIVE build(_)
        build(i) == IF i > Len(df) THEN << >>
                    ELSE (IF i \in idx THEN << df[i] >> ELSE << >>) \o build(i + 1)
    IN build(1)

\* DataFrame.drop_duplicates(subset=...): the first row of each key is kept
drop_duplicates(df) ==
    LET keep(i) == \A j \in 1..(i - 1) : dup_key(df[j]) # dup_key(df[i])
        idx == {i \in 1..Len(df) : keep(i)}
        RECURSIVE build(_)
        build(i) == IF i > Len(df) THEN << >>
                    ELSE (IF i \in idx THEN << df[i] >> ELSE << >>) \o build(i + 1)
    IN build(1)

\* the column selection and clean-up of preparar_precos, after the price step
colunas_principais(withnum) ==
    [k \in 1..Len(withnum) |->
       [nome |-> Strip(astype_str(withnum[k].nome)),
        tipo_profissional |-> withnum[k].tipo_profissional,
        preco |-> to_numeric(withnum[k].preco).v,
        cidade_oficial |-> withnum[k].cidade_oficial,
        uf_oficial |-> withnum[k].uf_oficial,
        fonte |-> withnum[k].fonte,
        cidade_slug |-> withnum[k].cidade_slug,
        cidade_norm |-> withnum[k].cidade_norm]]

\* mutant of preparar_precos: the rows without a price are kept, priced 0
preparar_precos_sem_filtro(df) == drop_duplicates(colunas_principais(df))

\* preparar_precos: numeric price, rows without a price removed, the main
\* columns selected, nome stripped, duplicates dropped.  (The registro column
\* built from crp / crm is carried along and read by nothing below; the rows
\* here do not hold it.)
preparar_precos(df) ==
    LET withnum == SelectSeq(df, LAMBDA r : ~to_numeric(r.preco).na)
    IN drop_duplicates(colunas_principais(withnum))

(***************************************************************************)
(* Aggregation of script 01 (main, step 6).  Means and medians are exact   *)
(* fractions in lowest terms.                                              *)
(***************************************************************************)
RECURSIVE GCD(_, _)
GCD(a, b) == IF b = 0 THEN a ELSE GCD(b, a % b)

Frac(n, d) == LET g == GCD(n, d) IN [n |-> n \div g, d |-> d \div g]

FracLeq(a, b) == a.n * b.d <= b.n * a.d

RECURSIVE Insert(_, _)
Insert(x, s) ==
    IF s = << >> THEN << x >>
    ELSE IF x <= Head(s) THEN << x >> \o s ELSE << Head(s) >> \o Insert(x, Tail(s))

RECURSIVE SortNums(_)
SortNums(s) == IF s = << >> THEN << >> ELSE Insert(Head(s), SortNums(Tail(s)))

\* Series.min / Series.max of a non-empty group
agg_min(s) == SortNums(s)[1]

agg_max(s) == SortNums(s)[Len(s)]

\* Series.mean
agg_mean(s) == Frac(SumSeq(s), Len(s))

\* Series.median: the central value, or the mean of the two central values
agg_median(s) ==
    LET t == SortNums(s)
        n == Len(s)
    IN IF n % 2 = 1 THEN Frac(t[(n + 1) \div 2], 1)
       ELSE Frac(t[n \div 2] + t[n \div 2 + 1], 2)

\* the groupby columns of main
grupo_key(r) == << r.cidade_oficial, r.uf_oficial, r.cidade_norm, r.tipo_profissional >>

\* df.groupby([...], dropna=False)["preco"].agg(["count", "mean", "median",
\* "min", "max"]): one row per key that occurs in df.  The result is the set
\* of its rows (groupby's key order is not modelled).
agregar_precos(df) ==
    LET keys == {grupo_key(df[i]) : i \in 1..Len(df)}
        rows(k) == SelectSeq(df, LAMBDA r : grupo_key(r) = k)
        precos_de(k) == [i \in 1..Len(rows(k)) |-> rows(k)[i].preco]
    IN {[cidade_oficial |-> k[1], uf_oficial |-> k[2], cidade_norm |-> k[3],
         tipo_profissional |-> k[4],
         qtd_profissionais |-> Len(precos_de(k)),
         preco_medio |-> agg_mean(precos_de(k)),
         preco_mediano |-> agg_median(precos_de(k)),
         preco_min |-> agg_min(precos_de(k)),
         preco_max |-> agg_max(precos_de(k))] : k \in keys}

(***************************************************************************)
(* Inputs of script 01                                                     *)
(***************************************************************************)
\* the largest number of rows over the five price files
MaxRecs == 3

Num(v) == [kind |-> "num", v |-> v]

ACombinar == [kind |-> "text", v |-> 0]

PrecoVazio == [kind |-> "na", v |-> 0]

saopaulo_min == << "s", "a", "o", " ", "p", "a", "u", "l", "o" >>

Rio == << "R", "i", "o" >>

Ana == << "A", "n", "a" >>

Bia == << "B", "i", "a" >>

Caio == << "C", "a", "i", "o" >>

Linha(a, nome, preco, cidade, uf, slug) ==
    [arquivo |-> a, nome |-> nome, preco |-> preco, cidade |-> cidade, uf |-> uf,
     cidade_slug |-> slug]

\* the rows multi-row inputs are made of
RecordPool ==
    { Linha(1, Ana, Num(100), SaoPaulo, << "S", "P" >>, SlugNaN),
      Linha(1, Bia, Num(200), SaoPaulo, << "S", "P" >>, SlugNaN),
      Linha(1, Bia, Num(300), Rio, NaN, "sao-paulo-sp"),
      Linha(1, << "9", " ", "O", "p", "i", "n", "i", "õ", "e", "s" >>, PrecoVazio,
            SaoPaulo, << "S", "P" >>, SlugNaN),
      Linha(3, Caio, Num(300), saopaulo_min, << "s", "p" >>, SlugNaN),
      Linha(3, Ana \o << " " >>, Num(100), SaoPaulo, << "S", "P" >>, SlugNaN),
      Linha(4, Bia, ACombinar, SaoPaulo, << "S", "P" >>, SlugNaN),
      Linha(4, Caio, Num(300), NaN, NaN, "curitiba-pr") }

\* every combination of cell values, for one-row inputs
FullRows ==
    { Linha(a, nome, preco, cidade, uf, slug) :
        a \in {1, 4}, nome \in {Ana},
        preco \in {Num(100), ACombinar, PrecoVazio},
        cidade \in {SaoPaulo, saopaulo_min, << " ", "R", "i", "o" >>, NaN},
        uf \in {<< "S", "P" >>, << "s", "p", " " >>, << "R", "J" >>, NaN},
        slug \in {SlugNaN, "sao-paulo-sp", "salvador-ba", "curitiba-pr"} }

\* the row sequences in file order (the files are concatenated in order)
Entradas ==
    {s \in SeqsUpTo(RecordPool, MaxRecs) :
        \A i \in 1..(Len(s) - 1) : s[i].arquivo <= s[i + 1].arquivo}
      \cup {<< r >> : r \in FullRows}

\* the content of file i given all rows
arquivo_de(s, i) == SelectSeq(s, LAMBDA r : r.arquivo = i)

(***************************************************************************)
(* Merge scripts 02: reading a numeric-looking CSV column                  *)
(***************************************************************************)
\* a missing value of a numeric column (NU_ANO, casos_f32_f41, Qtd_caps)
NumNaN == -1

Digits == {"0", "1", "2", "3", "4", "5", "6", "7", "8", "9"}

AllDigits(t) == \A i \in 1..Len(t) : t[i] \in Digits

\* the cell reads as an integer
IsIntText(t) == ~isna(t) /\ Len(t) >= 1 /\ AllDigits(t)

\* the position of the decimal point, 0 if there is none
DotPos(t) == IF \E i \in 1..Len(t) : t[i] = "."
             THEN CHOOSE i \in 1..Len(t) : t[i] = "." /\ \A j \in 1..(i - 1) : t[j] # "."
             ELSE 0

\* the cell reads as a decimal number with a point
IsFloatText(t) ==
    /\ ~isna(t)
    /\ DotPos(t) > 1
    /\ DotPos(t) < Len(t)
    /\ AllDigits(SubSeq(t, 1, DotPos(t) - 1))
    /\ AllDigits(SubSeq(t, DotPos(t) + 1, Len(t)))

\* pd.read_csv's type of a column, from its cells: int64 when every cell is
\* an integer, float64 when every cell is a number or empty, else object
ColDtype(cells) ==
    IF \A i \in 1..Len(cells) : IsIntText(cells[i]) THEN "int64"
    ELSE IF \A i \in 1..Len(cells) :
              isna(cells[i]) \/ IsIntText(cells[i]) \/ IsFloatText(cells[i])
         THEN "float64"
    ELSE "object"

RECURSIVE StripLeadingZeros(_)
StripLeadingZeros(t) ==
    IF Len(t) >= 2 /\ Head(t) = "0" THEN StripLeadingZeros(Tail(t)) ELSE t

RECURSIVE StripTrailingZeros(_)
StripTrailingZeros(t) ==
    IF Len(t) >= 2 /\ t[Len(t)] = "0"
    THEN StripTrailingZeros(SubSeq(t, 1, Len(t) - 1)) ELSE t

\* str(float(t)) for a non-negative decimal below 1e16
FloatStr(t) ==
    IF IsIntText(t) THEN StripLeadingZeros(t) \o << ".", "0" >>
    ELSE StripLeadingZeros(SubSeq(t, 1, DotPos(t) - 1)) \o << "." >>
           \o StripTrailingZeros(SubSeq(t, DotPos(t) + 1, Len(t)))

\* Series.astype(str) on a cell of a column of the given type
CellStr(dtype, t) ==
    IF isna(t) THEN NanText
    ELSE IF dtype = "int64" THEN StripLeadingZeros(t)
    ELSE IF dtype = "float64" THEN FloatStr(t)
    ELSE t

\* the width of a municipality code
LARGURA_COD == 7

RECURSIVE Zeros(_)
Zeros(n) == IF n <= 0 THEN << >> ELSE << "0" >> \o Zeros(n - 1)

\* str.zfill(width): zeros on the left up to the width, never a cut
zfill(s, width) == Zeros(width - Len(s)) \o s

\* df[col].astype(str).str.zfill(7) on a column as read from the file
codigo7(dtype, t) == zfill(CellStr(dtype, t), LARGURA_COD)

Coluna(rows, campo) == [i \in 1..Len(rows) |-> rows[i][campo]]

(***************************************************************************)
(* Merge scripts 02: the loaders                                           *)
(***************************************************************************)
\* carregar_precos_municipio: cidade_norm normalized again (an empty cell
\* reads as NaN and becomes ""), uf_oficial as upper-cased, stripped text.
\* The statistics columns are carried unchanged and are not held here.
carregar_precos_municipio(linhas) ==
    [k \in 1..Len(linhas) |->
       [cidade_oficial |-> linhas[k].cidade_oficial,
        tipo_profissional |-> linhas[k].tipo_profissional,
        cidade_norm |-> normalize_str(linhas[k].cidade_norm),
        uf_oficial |-> Strip(Upper(astype_str(linhas[k].uf_oficial)))]]

\* uf_map / UF_MAP: IBGE state code -> abbreviation
uf_map ==
    [c \in {11, 12, 13, 14, 15, 16, 17, 21, 22, 23, 24, 25, 26, 27, 28, 29,
            31, 32, 33, 35, 41, 42, 43, 50, 51, 52, 53} |->
       CASE c = 11 -> << "R", "O" >> [] c = 12 -> << "A", "C" >>
         [] c = 13 -> << "A", "M" >> [] c = 14 -> << "R", "R" >>
         [] c = 15 -> << "P", "A" >> [] c = 16 -> << "A", "P" >>
         [] c = 17 -> << "T", "O" >> [] c = 21 -> << "M", "A" >>
         [] c = 22 -> << "P", "I" >> [] c = 23 -> << "C", "E" >>
         [] c = 24 -> << "R", "N" >> [] c = 25 -> << "P", "B" >>
         [] c = 26 -> << "P", "E" >> [] c = 27 -> << "A", "L" >>
         [] c = 28 -> << "S", "E" >> [] c = 29 -> << "B", "A" >>
         [] c = 31 -> << "M", "G" >> [] c = 32 -> << "E", "S" >>
         [] c = 33 -> << "R", "J" >> [] c = 35 -> << "S", "P" >>
         [] c = 41 -> << "P", "R" >> [] c = 42 -> << "S", "C" >>
         [] c = 43 -> << "R", "S" >> [] c = 50 -> << "M", "S" >>
         [] c = 51 -> << "M", "T" >> [] c = 52 -> << "G", "O" >>
         [] c = 53 -> << "D", "F" >>]

\* Series.map(uf_map): NaN for a code that is no key
\* mutant of map_uf: the federal district is missing from the table
map_uf_sem_df(c) == IF c \in DOMAIN uf_map \ {53} THEN uf_map[c] ELSE NaN

map_uf(c) == IF c \in DOMAIN uf_map THEN uf_map[c] ELSE NaN

\* .str.normalize("NFKD").str.encode("ascii", "ignore").str.decode("utf-8")
nfkd_ascii(s) ==
    SelectSeq(StripAccents(s), LAMBDA c : c \notin {"ã", "Ã", "õ", "Õ"})

\* the nome_norm column of carregar_municipios
nome_norm_de(scr, nome) ==
    IF scr = "exemplo" THEN normalize_str(nome)
    ELSE nfkd_ascii(Lower(Strip(astype_str(nome))))

\* the SIGLA_UF column of carregar_municipios
sigla_uf_de(scr, tem_uf, cd_uf) ==
    IF tem_uf THEN map_uf(cd_uf)
    ELSE IF scr = "exemplo" THEN << >> ELSE NaN

\* carregar_municipios: raises when the file has no codigo_ibge column;
\* CD_MUN is astype(str).str.zfill(7)
carregar_municipios(scr, tab) ==
    IF "codigo_ibge" \notin tab.colunas THEN [erro |-> TRUE, df |-> << >>]
    ELSE
      LET dt == ColDtype(Coluna(tab.linhas, "codigo_ibge"))
      IN [erro |-> FALSE,
          df |-> [k \in 1..Len(tab.linhas) |->
                    [CD_MUN |-> codigo7(dt, tab.linhas[k].codigo_ibge),
                     NM_MUN |-> tab.linhas[k].nome,
                     SIGLA_UF |-> sigla_uf_de(scr, "codigo_uf" \in tab.colunas,
                                              tab.linhas[k].codigo_uf),
                     nome_norm |-> nome_norm_de(scr, tab.linhas[k].nome)]]]

\* carregar_caps: an empty frame when the file is absent; the municipality
\* code as astype(str).str.zfill(7); the multi-year script also turns a
\* missing Qtd_caps into 0
carregar_caps(scr, arq) ==
    IF ~arq.existe THEN << >>
    ELSE
      LET dt == ColDtype(Coluna(arq.linhas, "IBGE"))
      IN [k \in 1..Len(arq.linhas) |->
            [CD_MUN |-> codigo7(dt, arq.linhas[k].IBGE),
             Qtd_caps |-> IF scr = "multi_anos" /\ arq.linhas[k].Qtd_caps = NumNaN
                          THEN 0 ELSE arq.linhas[k].Qtd_caps]]

\* the yearly MENTBR files that exist
ment_existentes(arqs) == {f \in 1..Len(arqs) : arqs[f].existe}

\* the type of ID_MUNICIP after pd.concat of the files read
ment_dtype(arqs) ==
    LET dts == {ColDtype(Coluna(arqs[f].linhas, "ID_MUNICIP")) : f \in ment_existentes(arqs)}
    IN IF dts \subseteq {"int64"} THEN "int64"
       ELSE IF dts \subseteq {"int64", "float64"} THEN "float64"
       ELSE "object"

\* the rows of file f as carregar_mentais holds them: ID_MUNICIP is the value
\* read (kept as the text str() gives for it, or NaN)
ment_linhas(arqs, f) ==
    LET fdt == ColDtype(Coluna(arqs[f].linhas, "ID_MUNICIP"))
        cdt == ment_dtype(arqs)
        dt == IF cdt = "object" THEN fdt ELSE cdt
    IN [k \in 1..Len(arqs[f].linhas) |->
          [ID_MUNICIP |-> IF isna(arqs[f].linhas[k].ID_MUNICIP) THEN NaN
                          ELSE CellStr(dt, arqs[f].linhas[k].ID_MUNICIP),
           DIAG_ESP |-> arqs[f].linhas[k].DIAG_ESP,
           NU_ANO |-> arqs[f].linhas[k].NU_ANO]]

RECURSIVE ment_concat(_, _)
ment_concat(arqs, f) ==
    IF f > Len(arqs) THEN << >>
    ELSE (IF arqs[f].existe THEN ment_linhas(arqs, f) ELSE << >>)
           \o ment_concat(arqs, f + 1)

\* mutant of carregar_mentais: the loop stops at the first missing file
carregar_mentais_break(arqs) ==
    LET faltam == {f \in 1..Len(arqs) : ~arqs[f].existe}
        ate == IF faltam = {} THEN Len(arqs)
               ELSE (CHOOSE f \in faltam : \A g \in faltam : f <= g) - 1
    IN IF ate = 0 THEN [erro |-> TRUE, df |-> << >>]
       ELSE [erro |-> FALSE, df |-> ment_concat(SubSeq(arqs, 1, ate), 1)]

\* mutant of carregar_mentais: no error when no file was loaded
carregar_mentais_sem_erro(arqs) == [erro |-> FALSE, df |-> ment_concat(arqs, 1)]

\* carregar_mentais: the files that exist are stacked in order; RuntimeError
\* when none was loaded
carregar_mentais(arqs) ==
    IF ment_existentes(arqs) = {} THEN [erro |-> TRUE, df |-> << >>]
    ELSE [erro |-> FALSE, df |-> ment_concat(arqs, 1)]

F32 == << "F", "3", "2" >>

F41 == << "F", "4", "1" >>

\* mutant of diag_normalizado: the code is not upper-cased
diag_sem_upper(d) == Strip(astype_str(d))

\* the DIAG_ESP column as filtrar_f32_f41 rewrites it
diag_normalizado(d) == Strip(Upper(astype_str(d)))

\* the mask of filtrar_f32_f41
mask_f32_f41(d) == StartsWith(d, F32) \/ StartsWith(d, F41)

\* filtrar_f32_f41
filtrar_f32_f41(df) ==
    LET norm == [k \in 1..Len(df) |->
                   [ID_MUNICIP |-> df[k].ID_MUNICIP,
                    DIAG_ESP |-> diag_normalizado(df[k].DIAG_ESP),
                    NU_ANO |-> df[k].NU_ANO]]
    IN SelectSeq(norm, LAMBDA r : mask_f32_f41(r.DIAG_ESP))

(***************************************************************************)
(* Merge scripts 02: aggregation of notifications and the joins            *)
(***************************************************************************)
\* the code point order of the characters a code text can hold
CharRank(c) ==
    CASE c = "." -> 46
      [] c = "0" -> 48 [] c = "1" -> 49 [] c = "2" -> 50 [] c = "3" -> 51
      [] c = "4" -> 52 [] c = "5" -> 53 [] c = "6" -> 54 [] c = "7" -> 55
      [] c = "8" -> 56 [] c = "9" -> 57
      [] c = "a" -> 97 [] c = "n" -> 110
      [] OTHER -> 200

\* s < t as Python compares str
RECURSIVE TextLess(_, _)
TextLess(s, t) ==
    IF t = << >> THEN FALSE
    ELSE IF s = << >> THEN TRUE
    ELSE IF Head(s) = Head(t) THEN TextLess(Tail(s), Tail(t))
    ELSE CharRank(Head(s)) < CharRank(Head(t))

\* the order of groupby's keys (cod_mun_ibge, ano)
ChaveMenor(a, b) == TextLess(a[1], b[1]) \/ (a[1] = b[1] /\ a[2] < b[2])

RECURSIVE OrdenarChaves(_)
OrdenarChaves(S) ==
    IF S = {} THEN << >>
    ELSE LET m == CHOOSE x \in S : \A y \in S \ {x} : ChaveMenor(x, y)
         IN << m >> \o OrdenarChaves(S \ {m})

\* agregar_mentais_por_municipio_ano: ID_MUNICIP as astype(str).str.zfill(7),
\* then groupby([ID_MUNICIP, NU_ANO]).size(); groupby drops the rows whose
\* key holds a missing value and sorts the groups by key
agregar_mentais_por_municipio_ano(df) ==
    LET cod(r) == zfill(astype_str(r.ID_MUNICIP), LARGURA_COD)
        usados == {k \in 1..Len(df) : df[k].NU_ANO # NumNaN}
        chaves == {<< cod(df[k]), df[k].NU_ANO >> : k \in usados}
        ord == OrdenarChaves(chaves)
    IN [i \in 1..Len(ord) |->
          [cod_mun_ibge |-> ord[i][1], ano |-> ord[i][2],
           casos_f32_f41 |->
             Cardinality({k \in usados : << cod(df[k]), df[k].NU_ANO >> = ord[i]})]]

\* the registry columns anexar_ibge_a_precos joins on
mun_para_join(scr, mun) ==
    [k \in 1..Len(mun) |->
       [CD_MUN |-> mun[k].CD_MUN,
        nome_norm |-> IF scr = "exemplo" THEN mun[k].nome_norm
                      ELSE normalize_str(mun[k].nome_norm),
        SIGLA_UF |-> IF scr = "exemplo" THEN Strip(Upper(astype_str(mun[k].SIGLA_UF)))
                     ELSE mun[k].SIGLA_UF]]

RECURSIVE Flatten(_)
Flatten(ss) == IF ss = << >> THEN << >> ELSE Head(ss) \o Flatten(Tail(ss))

\* a row of precos_ibge: the price row, the matched CD_MUN renamed
\* cod_mun_ibge and rewritten astype(str).str.zfill(7), and the right keys
linha_ibge(l, cd_mun, nome_norm, sigla) ==
    [cidade_oficial |-> l.cidade_oficial, tipo_profissional |-> l.tipo_profissional,
     cidade_norm |-> l.cidade_norm, uf_oficial |-> l.uf_oficial,
     cod_mun_ibge |-> zfill(astype_str(cd_mun), LARGURA_COD),
     nome_norm |-> nome_norm, SIGLA_UF |-> sigla]

\* anexar_ibge_a_precos: precos.merge(mun[[CD_MUN, nome_norm, SIGLA_UF]],
\* left_on=[cidade_norm, uf_oficial], right_on=[nome_norm, SIGLA_UF],
\* how="left"): the price rows in order, each once per matching registry
\* row (in the registry's order) or once with the right columns missing
anexar_ibge_a_precos(scr, prc, mun) ==
    LET right == mun_para_join(scr, mun)
        pares(l) == SelectSeq(right, LAMBDA r : l.cidade_norm = r.nome_norm
                                                  /\ l.uf_oficial = r.SIGLA_UF)
        linhas(l) == IF pares(l) = << >> THEN << linha_ibge(l, NaN, NaN, NaN) >>
                     ELSE [i \in 1..Len(pares(l)) |->
                             linha_ibge(l, pares(l)[i].CD_MUN, pares(l)[i].nome_norm,
                                        pares(l)[i].SIGLA_UF)]
    IN Flatten([k \in 1..Len(prc) |-> linhas(prc[k])])

\* precos_ibge["cod_mun_ibge"].notna().sum()
contar_preenchidos(df) == Cardinality({k \in 1..Len(df) : ~isna(df[k].cod_mun_ibge)})

\* the year the single-year script keeps
ano_analise == 2023

\* the notification table main joins: the rows of ano_analise, or all
ment_para_join(scr, agg) ==
    IF scr = "exemplo" THEN SelectSeq(agg, LAMBDA r : r.ano = ano_analise) ELSE agg

linha_base(l, ano, casos) ==
    [cidade_oficial |-> l.cidade_oficial, tipo_profissional |-> l.tipo_profissional,
     cidade_norm |-> l.cidade_norm, uf_oficial |-> l.uf_oficial,
     cod_mun_ibge |-> l.cod_mun_ibge, nome_norm |-> l.nome_norm,
     SIGLA_UF |-> l.SIGLA_UF, ano |-> ano, casos_f32_f41 |-> casos,
     Qtd_caps |-> NumNaN]

\* mutant of juntar_mentais: how="inner", the rows without a pair are dropped
juntar_mentais_inner(scr, pibge, agg) ==
    LET right == ment_para_join(scr, agg)
        pares(l) == SelectSeq(right, LAMBDA r : l.cod_mun_ibge = r.cod_mun_ibge)
        linhas(l) == [i \in 1..Len(pares(l)) |->
                        linha_base(l, pares(l)[i].ano, pares(l)[i].casos_f32_f41)]
    IN Flatten([k \in 1..Len(pibge) |-> linhas(pibge[k])])

\* base = precos_ibge.merge(ment, on="cod_mun_ibge", how="left")
juntar_mentais(scr, pibge, agg) ==
    LET right == ment_para_join(scr, agg)
        pares(l) == SelectSeq(right, LAMBDA r : l.cod_mun_ibge = r.cod_mun_ibge)
        linhas(l) == IF pares(l) = << >> THEN << linha_base(l, NumNaN, NumNaN) >>
                     ELSE [i \in 1..Len(pares(l)) |->
                             linha_base(l, pares(l)[i].ano, pares(l)[i].casos_f32_f41)]
    IN Flatten([k \in 1..Len(pibge) |-> linhas(pibge[k])])

\* base.merge(caps, left_on="cod_mun_ibge", right_on=..., how="left"), done
\* only when caps is not empty; without it the rows have no Qtd_caps
\* (held here as a missing Qtd_caps)
juntar_caps(b, cps) ==
    LET pares(l) == SelectSeq(cps, LAMBDA r : l.cod_mun_ibge = r.CD_MUN)
        linhas(l) == IF pares(l) = << >> THEN << l >>
                     ELSE [i \in 1..Len(pares(l)) |->
                             [l EXCEPT !.Qtd_caps = pares(l)[i].Qtd_caps]]
    IN IF cps = << >> THEN b
       ELSE Flatten([k \in 1..Len(b) |-> linhas(b[k])])

(***************************************************************************)
(* Inputs of the merge scripts                                             *)
(***************************************************************************)
\* the largest number of rows of output/precos_por_municipio.csv
MaxPrecos == 2

\* the largest number of rows of BR_Municipios_2023.csv
MaxMun == 2

\* the largest number of rows over the MENTBR files
MaxMent == 2

\* the largest number of rows of CAPS_Municipios.csv
MaxCaps == 1

Arq(linhas) == [existe |-> TRUE, linhas |-> linhas]

Ausente == [existe |-> FALSE, linhas |-> << >>]

SP == << "S", "P" >>

CodSP == << "3", "5", "5", "0", "3", "0", "8" >>

CodSP2 == << "3", "5", "5", "0", "3", "0", "9" >>

CodRJ == << "3", "3", "0", "4", "5", "5", "7" >>

Xis == << "X", "i", "s" >>

PrecoLinha(cid, uf, norm, tipo) ==
    [cidade_oficial |-> cid, uf_oficial |-> uf, cidade_norm |-> norm,
     tipo_profissional |-> tipo]

\* rows of the price table: one of a registered city, one of a city the
\* registry does not hold
PrecosPool ==
    { PrecoLinha(SaoPaulo, SP, saopaulo_min, "psicologo"),
      PrecoLinha(Xis, SP, << "x", "i", "s" >>, "psicologo") }

MunLinha(cod, nome, uf) == [codigo_ibge |-> cod, nome |-> nome, codigo_uf |-> uf]

\* registry rows: two entries with the same normalized name and state, and
\* another city
MunPool ==
    { MunLinha(CodSP, SaoPaulo, 35),
      MunLinha(CodSP2, << "S", "A", "O", " ", "P", "A", "U", "L", "O" >>, 35),
      MunLinha(CodRJ, RioDeJaneiro, 33) }

\* registry rows over the ways a code is written: 7 digits, short,
\* zero-padded, with a decimal point, empty, longer than 7 digits
MunPoolCodigos ==
    { MunLinha(cod, SaoPaulo, uf) :
        cod \in { CodSP, << "4", "2" >>, << "0", "0", "0", "0", "0", "4", "2" >>,
                  CodSP \o << ".", "0" >>, NaN, CodSP \o << "1" >> },
        uf \in {35, 99} }

MentLinha(a, cod, diag, ano) ==
    [arquivo |-> a, ID_MUNICIP |-> cod, DIAG_ESP |-> diag, NU_ANO |-> ano]

\* notification rows: a 2023 and a 2022 case of a registered city and a
\* 2023 case without municipality code
MentPool ==
    { MentLinha(4, CodSP, << "F", "3", "2", "1" >>, 2023),
      MentLinha(4, NaN, << "F", "4", "1", "0" >>, 2023),
      MentLinha(3, CodSP, << "F", "3", "2" >>, 2022) }

\* notification rows over the ways a diagnosis code is written
MentPoolDiag ==
    { MentLinha(4, CodSP, diag, ano) :
        ano \in {2022, 2023},
        diag \in { << "F", "3", "2", "1" >>, << "F", "4", "1", "0" >>,
                   << "F", "2", "0", "0" >>, NaN,
                   << " ", "f", "3", "2", "1", " " >>,
                   << "X", "F", "3", "2" >>, << "F", "4" >> } }

CapsLinha(cod, qtd) == [IBGE |-> cod, Qtd_caps |-> qtd]

CapsPool == { CapsLinha(CodSP, 2), CapsLinha(NaN, 1) }

\* the sequences over S without a repeated row, of length at most n
SeqsDistintas(S, n) ==
    {s \in SeqsUpTo(S, n) : \A i, j \in 1..Len(s) : i # j => s[i] # s[j]}

\* row sequences in file order
EmOrdemDeArquivo(S, n) ==
    {s \in SeqsUpTo(S, n) : \A i \in 1..(Len(s) - 1) : s[i].arquivo <= s[i + 1].arquivo}

\* the MENTBR files holding the rows of s; a file without rows is absent
ment_arquivos(s) ==
    [f \in 1..5 |->
       LET linhas == SelectSeq(s, LAMBDA r : r.arquivo = f)
       IN IF linhas = << >> THEN Ausente
          ELSE Arq([k \in 1..Len(linhas) |->
                      [ID_MUNICIP |-> linhas[k].ID_MUNICIP,
                       DIAG_ESP |-> linhas[k].DIAG_ESP,
                       NU_ANO |-> linhas[k].NU_ANO]])]

TodasColunas == {"codigo_ibge", "nome", "codigo_uf"}

MunArq(colunas, linhas) == [existe |-> TRUE, colunas |-> colunas, linhas |-> linhas]

Disco(p, m, c, mt) == [precos |-> p, municipios |-> m, caps |-> c, ment |-> mt]

\* runs of the whole join: a price table, a registry, notifications, CAPS
DiscosJuncao ==
    { Disco(Arq(p), MunArq(TodasColunas, m), c, ment_arquivos(mt)) :
        p \in SeqsDistintas(PrecosPool, MaxPrecos),
        m \in SeqsDistintas(MunPool, MaxMun),
        c \in {Ausente} \cup {Arq(s) : s \in SeqsUpTo(CapsPool, MaxCaps)},
        mt \in EmOrdemDeArquivo(MentPool, MaxMent) }

\* runs over the registry file: every way of writing the code, with and
\* without the code and state columns
DiscosMunicipios ==
    { Disco(Arq(<< >>), MunArq(cols, m), Ausente, ment_arquivos(<< >>)) :
        cols \in { TodasColunas, {"nome", "codigo_uf"}, {"codigo_ibge", "nome"}, {"nome"} },
        m \in SeqsUpTo(MunPoolCodigos, MaxMun) }

\* runs over the notification files: every way of writing the diagnosis
DiscosMentais ==
    { Disco(Arq(<< >>), MunArq(TodasColunas, << >>), Ausente, ment_arquivos(mt)) :
        mt \in SeqsUpTo(MentPoolDiag, MaxMent) }

\* notification rows of one file whose NU_ANO column has an empty cell
MentPoolAno ==
    { MentLinha(4, CodSP, << "F", "3", "2", "1" >>, 2023),
      MentLinha(4, CodSP, << "F", "4", "1", "0" >>, NumNaN),
      MentLinha(4, NaN, << "F", "3", "2" >>, NumNaN) }

\* runs over the notification files: rows without a year
DiscosMentaisAno ==
    { Disco(Arq(<< >>), MunArq(TodasColunas, << >>), Ausente, ment_arquivos(mt)) :
        mt \in SeqsUpTo(MentPoolAno, MaxMent) }

\* the numeric state codes of the 27 federative units
CodigosUF ==
    {11, 12, 13, 14, 15, 16, 17, 21, 22, 23, 24, 25, 26, 27, 28, 29,
     31, 32, 33, 35, 41, 42, 43, 50, 51, 52, 53}

\* runs over the registry file: one municipality of every state code, and of
\* codes that are no state's
DiscosUF ==
    { Disco(Arq(<< >>), MunArq(TodasColunas, << MunLinha(CodSP, SaoPaulo, uf) >>), Ausente,
            ment_arquivos(<< >>)) : uf \in CodigosUF \cup {0, 34, 54} }

\* runs with a required input file absent
DiscosAusentes ==
    { Disco(p, m, Ausente, ment_arquivos(<< >>)) :
        p \in {Ausente, Arq(<< >>)},
        m \in {[existe |-> FALSE, colunas |-> {}, linhas |-> << >>],
               MunArq(TodasColunas, << >>)} }

\* the output file of a merge script: absent, left by an earlier run, or
\* written by this run with base.to_csv(out_path)
SaidaAusente == [existe |-> FALSE, gravada |-> FALSE, linhas |-> << >>]

SaidaAnterior == [existe |-> TRUE, gravada |-> FALSE, linhas |-> << >>]

to_csv(df) == [existe |-> TRUE, gravada |-> TRUE, linhas |-> df]

(***************************************************************************)
(* Per-state notification counts: analise_psico_caps_datasus.py and        *)
(* graficos_saude_mental_avancado.py; the state map of script 09           *)
(***************************************************************************)
\* IBGE_TO_UF of analise_psico_caps_datasus.py: state code -> abbreviation
IBGE_TO_UF ==
    [c \in {"11", "12", "13", "14", "15", "16", "17", "21", "22", "23", "24",
            "25", "26", "27", "28", "29", "31", "33", "35", "41",
            "42", "43", "50", "51", "52", "53"} |->
       CASE c = "11" -> "RO" [] c = "12" -> "AC" [] c = "13" -> "AM" [] c = "14" -> "RR"
         [] c = "15" -> "PA" [] c = "16" -> "AP" [] c = "17" -> "TO" [] c = "21" -> "MA"
         [] c = "22" -> "PI" [] c = "23" -> "CE" [] c = "24" -> "RN" [] c = "25" -> "PB"
         [] c = "26" -> "PE" [] c = "27" -> "AL" [] c = "28" -> "SE" [] c = "29" -> "BA"
         [] c = "31" -> "MG" [] c = "33" -> "RJ" [] c = "35" -> "SP" [] c = "41" -> "PR"
         [] c = "42" -> "SC" [] c = "43" -> "RS" [] c = "50" -> "MS" [] c = "51" -> "MT"
         [] c = "52" -> "GO" [] c = "53" -> "DF"]

\* IBGE_TO_UF of graficos_saude_mental_avancado.py
IBGE_TO_UF_graficos ==
    [c \in {"11", "12", "13", "14", "15", "16", "17", "21", "22", "23", "24",
            "25", "26", "27", "28", "29", "31", "33", "35", "41",
            "42", "43", "50", "51", "52", "53"} |->
       CASE c = "11" -> "RO" [] c = "12" -> "AC" [] c = "13" -> "AM" [] c = "14" -> "RR"
         [] c = "15" -> "PA" [] c = "16" -> "AP" [] c = "17" -> "TO" [] c = "21" -> "MA"
         [] c = "22" -> "PI" [] c = "23" -> "CE" [] c = "24" -> "RN" [] c = "25" -> "PB"
         [] c = "26" -> "PE" [] c = "27" -> "AL" [] c = "28" -> "SE" [] c = "29" -> "BA"
         [] c = "31" -> "MG" [] c = "33" -> "RJ" [] c = "35" -> "SP" [] c = "41" -> "PR"
         [] c = "42" -> "SC" [] c = "43" -> "RS" [] c = "50" -> "MS" [] c = "51" -> "MT"
         [] c = "52" -> "GO" [] c = "53" -> "DF"]

\* the map script 09 applies to the first two characters of codigo_ibge
mapa_uf_script09 ==
    [c \in {"11", "12", "13", "14", "15", "16", "17", "21", "22", "23", "24",
            "25", "26", "27", "28", "29", "31", "32", "33", "35",
            "41", "42", "43", "50", "51", "52", "53"} |->
       CASE c = "11" -> "RO" [] c = "12" -> "AC" [] c = "13" -> "AM" [] c = "14" -> "RR"
         [] c = "15" -> "PA" [] c = "16" -> "AP" [] c = "17" -> "TO" [] c = "21" -> "MA"
         [] c = "22" -> "PI" [] c = "23" -> "CE" [] c = "24" -> "RN" [] c = "25" -> "PB"
         [] c = "26" -> "PE" [] c = "27" -> "AL" [] c = "28" -> "SE" [] c = "29" -> "BA"
         [] c = "31" -> "MG" [] c = "32" -> "ES" [] c = "33" -> "RJ" [] c = "35" -> "SP"
         [] c = "41" -> "PR" [] c = "42" -> "SC" [] c = "43" -> "RS" [] c = "50" -> "MS"
         [] c = "51" -> "MT" [] c = "52" -> "GO" [] c = "53" -> "DF"]

DigitChars == << "0", "1", "2", "3", "4", "5", "6", "7", "8", "9" >>

\* astype(str).str.zfill(2) of a state code read as an integer below 100
uf_ibge(n) ==
    IF n < 10 THEN "0" \o DigitChars[n + 1]
    ELSE DigitChars[(n \div 10) + 1] \o DigitChars[(n % 10) + 1]

\* the table of the given script
tabela_uf(qual) == IF qual = "analise" THEN IBGE_TO_UF ELSE IBGE_TO_UF_graficos

\* df["UF"] = df["UF_ibge"].map(IBGE_TO_UF): "" stands for NaN
uf_de(qual, n) ==
    IF uf_ibge(n) \in DOMAIN tabela_uf(qual) THEN tabela_uf(qual)[uf_ibge(n)] ELSE ""

\* ment_all.groupby("UF").size(): the rows without UF are dropped
resumo_por_uf(qual, sg_uf) ==
    LET ufcol == [k \in 1..Len(sg_uf) |-> uf_de(qual, sg_uf[k])]
        grupos == {ufcol[k] : k \in 1..Len(ufcol)} \ {""}
    IN [u \in grupos |-> Cardinality({k \in 1..Len(ufcol) : ufcol[k] = u})]

\* the notifications read: the SG_UF cell of each
MaxNotif == 3

CodigosNotif == {11, 32, 35, 53, 99}

(***************************************************************************)
(* Scrapers: parse_price (BoaConsulta) and parse_price_text (Doctoralia)   *)
(***************************************************************************)

\* the characters of the regex class [\d\.\,]
ClassePreco == Digits \cup {".", ","}

\* the first index at or after k whose character is not whitespace (\s*)
RECURSIVE SkipSpaces(_, _)
SkipSpaces(t, k) ==
    IF k <= Len(t) /\ IsSpace(t[k]) THEN SkipSpaces(t, k + 1) ELSE k

\* the last index of the run of [\d\.\,] characters that starts at k
RECURSIVE RunEnd(_, _)
RunEnd(t, k) ==
    IF k + 1 <= Len(t) /\ t[k + 1] \in ClassePreco THEN RunEnd(t, k + 1) ELSE k

\* the indexes where R\$\s*([\d\.\,]+) matches, the R being one of erres
MatchStarts(t, erres) ==
    {i \in 1..(Len(t) - 1) :
        /\ t[i] \in erres
        /\ t[i + 1] = "$"
        /\ SkipSpaces(t, i + 2) <= Len(t)
        /\ t[SkipSpaces(t, i + 2)] \in ClassePreco}

\* re.search(...).group(1): the group of the leftmost match
Group1(t, erres) ==
    LET i == CHOOSE x \in MatchStarts(t, erres) : \A y \in MatchStarts(t, erres) : x <= y
        j == SkipSpaces(t, i + 2)
    IN SubSeq(t, j, RunEnd(t, j))

\* .replace(".", "").replace(",", ".")
TrocaSeparadores(g) ==
    LET semPonto == SelectSeq(g, LAMBDA c : c # ".")
    IN [k \in 1..Len(semPonto) |-> IF semPonto[k] = "," THEN "." ELSE semPonto[k]]

DigitVal(c) ==
    CASE c = "0" -> 0 [] c = "1" -> 1 [] c = "2" -> 2 [] c = "3" -> 3 [] c = "4" -> 4
      [] c = "5" -> 5 [] c = "6" -> 6 [] c = "7" -> 7 [] c = "8" -> 8 [] c = "9" -> 9

\* int() of a text of digits, 0 for the empty text
RECURSIVE IntVal(_)
IntVal(t) ==
    IF t = << >> THEN 0
    ELSE 10 * IntVal(SubSeq(t, 1, Len(t) - 1)) + DigitVal(t[Len(t)])

RECURSIVE Pow10(_)
Pow10(k) == IF k = 0 THEN 1 ELSE 10 * Pow10(k - 1)

\* float(raw) succeeds: digits with at most one point and at least one digit
FloatOk(raw) ==
    /\ Cardinality({k \in 1..Len(raw) : raw[k] = "."}) <= 1
    /\ \E k \in 1..Len(raw) : raw[k] \in Digits

\* float(raw) as an exact fraction
FloatVal(raw) ==
    LET p == DotPos(raw)
        casas == IF p = 0 THEN 0 ELSE Len(raw) - p
    IN Frac(IntVal(SelectSeq(raw, LAMBDA c : c # ".")), Pow10(casas))

\* Python's None as the result of a parser
PrecoNone == [none |-> TRUE, v |-> Frac(0, 1)]

\* the conversion after the match: replace the separators, float() or None
converter_preco(g) ==
    LET raw == TrocaSeparadores(g)
    IN IF FloatOk(raw) THEN [none |-> FALSE, v |-> FloatVal(raw)] ELSE PrecoNone

\* parse_price of the BoaConsulta scrapers
parse_price(text) ==
    IF isna(text) \/ text = << >> THEN PrecoNone
    ELSE IF MatchStarts(text, {"R"}) = {} THEN PrecoNone
    ELSE converter_preco(Group1(text, {"R"}))

\* parse_price_text of the Doctoralia scraper: (raw, value)
parse_price_text(text) ==
    IF isna(text) \/ text = << >> THEN [raw |-> << >>, valor |-> PrecoNone]
    ELSE LET raw == Strip(text)
         IN IF MatchStarts(raw, {"R", "r"}) = {} THEN [raw |-> raw, valor |-> PrecoNone]
            ELSE [raw |-> raw, valor |-> converter_preco(Group1(raw, {"R", "r"}))]

\* the value the given scraper reads from the text
preco_lido(qual, text) ==
    IF qual = "boaconsulta" THEN parse_price(text) ELSE parse_price_text(text).valor

(***************************************************************************)
(* Inputs of the price parsers                                             *)
(***************************************************************************)
MaxTexto == 4

AlfabetoPreco == {"R", "$", " ", "1", "0", ".", ",", "a"}

\* texts the sources name
TextosNomeados ==
    { << "R", "$", " ", "1", ".", "2", "3", "4", ",", "5", "6" >>,
      << "a", " ", "c", "o", "m", "b", "i", "n", "a", "r" >>,
      << "R", "$", " ", "1", "8", "0" >>,
      << "R", "$", " ", "2", "0", "0", ",", "0", "0", ",", " ", "a" >>,
      << "a", " ", "R", "$", "2", "0", "0", ",", "5", "0", "." >>,
      << >>, NaN }

TextosPreco == SeqsUpTo(AlfabetoPreco, MaxTexto) \cup TextosNomeados

(***************************************************************************)
(* BoaConsulta scrapers: scrape_boaconsulta_psicologos.py and              *)
(* scrape_boaconsulta_psicoterapeutas.py (the same program up to the file  *)
(* names and the listing URL)                                              *)
(***************************************************************************)

\* get_profile_id: the path segment after "especialista", "" (None) when the
\* URL has none.  A URL is the sequence of its path segments.
get_profile_id(url) ==
    LET pos == {i \in 1..(Len(url) - 1) : url[i] = "especialista"}
    IN IF pos = {} THEN ""
       ELSE url[(CHOOSE i \in pos : \A j \in pos : i <= j) + 1]

\* the profile pages of the site: Ana has a price, Bia has none
PerfisDoSite ==
    [id \in {"ana", "bia"} |->
       IF id = "ana" THEN [preco_txt |-> << "R", "$", " ", "2", "0", "0" >>, cidade |-> "São Paulo"]
       ELSE [preco_txt |-> NaN, cidade |-> "Rio de Janeiro"]]

\* a cache file opened for writing whose content has not reached it: what
\* a reader finds in it has no price and no city
PaginaParcial == [preco_txt |-> NaN, cidade |-> ""]

\* the pages extract_crp_and_price can be given, each with the price
\* parse_price reads in it
PrecosDasPaginas ==
    {<< h, parse_price(h.preco_txt) >> :
       h \in {PerfisDoSite[id] : id \in DOMAIN PerfisDoSite} \cup {PaginaParcial}}

\* what extract_crp_and_price reads in a profile page: (price, city)
extrair_perfil(html) ==
    [preco |-> (CHOOSE p \in PrecosDasPaginas : p[1] = html)[2], cidade |-> html.cidade]

\* the (None, None, None) result
SemResultado == [preco |-> PrecoNone, cidade |-> ""]

\* mutant of sem_preco: every result is taken to have a price
sem_preco_nunca(p) == FALSE

\* "if not price": None and 0.0 are both false
sem_preco(p) == p.none \/ p.v.n = 0

\* the profiles parse_cards takes from the cards of a page: name and link
\* present and (name, url) not seen, in card order
RECURSIVE novos_perfis(_, _, _)
novos_perfis(cards, vistos, slug) ==
    IF cards = << >> THEN << >>
    ELSE LET c == Head(cards)
             novo == c.nome # "" /\ c.url # << >> /\ << c.nome, c.url >> \notin vistos
         IN IF novo
            THEN << [nome |-> c.nome, url |-> c.url, uf |-> c.uf, cidade_slug |-> slug] >>
                   \o novos_perfis(Tail(cards), vistos \cup {<< c.nome, c.url >>}, slug)
            ELSE novos_perfis(Tail(cards), vistos, slug)

\* load_seen_from_csv: the (nome, url) pairs of the rows of the output file.
\* csv.DictReader takes the first line of the file as the field names: in a
\* file without the header line the first row is consumed as the names and
\* every later row has no "nome" and no "url" (None, None)
load_seen_from_csv(arq) ==
    IF ~arq.existe THEN {}
    ELSE IF arq.cabecalho
    THEN {<< arq.linhas[k].nome, arq.linhas[k].url >> : k \in 1..Len(arq.linhas)}
    ELSE {<< "", << >> >> : k \in 2..Len(arq.linhas)}

\* the row parse_cards writes for a profile and its result
linha_csv(p, res) ==
    [nome |-> p.nome, preco |-> res.preco.v, cidade |-> res.cidade, uf |-> p.uf,
     url |-> p.url, cidade_slug |-> p.cidade_slug]

\* the file after the pending writes reach it
descarregar(arq, buf) ==
    [existe |-> TRUE, cabecalho |-> arq.cabecalho \/ buf.cabecalho,
     linhas |-> arq.linhas \o buf.linhas]

BufferVazio == [cabecalho |-> FALSE, linhas |-> << >>]

(***************************************************************************)
(* Inputs of the BoaConsulta scrapers                                      *)
(***************************************************************************)
\* the cities scraped (CITY_SLUGS holds 5) and the pages visited per city
\* (MAX_PAGES_PER_CITY is 80)
NumCidades == 2

MaxPaginas == 2

\* the successive runs of a scraper over the same output file
MaxExecucoes == 3

CITY_SLUGS == << "sao-paulo-sp", "rio-de-janeiro-rj", "belo-horizonte-mg",
                 "porto-alegre-rs", "salvador-ba" >>

Card(nome, url, uf) == [nome |-> nome, url |-> url, uf |-> uf]

CardAna == Card("Ana", << "especialista", "ana" >>, "SP")

\* the same profile link under another name
CardAna2 == Card("Ana S", << "especialista", "ana" >>, "SP")

CardBia == Card("Bia", << "especialista", "bia" >>, "RJ")

\* a card whose link is not a profile link, and a card without a name
CardClinica == Card("Xis", << "clinica", "xis" >>, "SP")

CardSemNome == Card("", << "especialista", "caio" >>, "SP")

\* the listings of one city: its pages, each a sequence of cards
ListagensPool ==
    { << << CardAna, CardAna2 >>, << CardBia >> >>,
      << << CardAna, CardBia >>, << CardAna, CardClinica >> >>,
      << << CardBia, CardSemNome >> >>,
      << >> }

Sites == {[listagens |-> l, perfis |-> PerfisDoSite] : l \in [1..NumCidades -> ListagensPool]}

\* the output file before the run: absent, or the rows of an earlier run
CsvAusente == [existe |-> FALSE, cabecalho |-> FALSE, linhas |-> << >>]

CsvAnterior ==
    [existe |-> TRUE, cabecalho |-> TRUE,
     linhas |-> << linha_csv([nome |-> "Ana", url |-> << "especialista", "ana" >>, uf |-> "SP",
                              cidade_slug |-> "sao-paulo-sp"],
                             extrair_perfil(PerfisDoSite["ana"])) >>]

\* the cache directory before the run: empty, or Bia's page from an earlier run
CachesIniciais == {<< >>, [id \in {"bia"} |-> PerfisDoSite["bia"]]}

\* the cards of the page of a city, none beyond the last page
cards_da_pagina(s, c, p) ==
    IF p <= Len(s.listagens[c]) THEN s.listagens[c][p] ELSE << >>

(***************************************************************************)
(* Doctoralia scraper: parse_listing_html and scrape_professional_type     *)
(***************************************************************************)
\* price_match.group(0): the text of the leftmost match of
\* [Rr]\$[\s\xa0]*[\d\.\,]+
Group0(t, erres) ==
    LET i == CHOOSE x \in MatchStarts(t, erres) : \A y \in MatchStarts(t, erres) : x <= y
    IN SubSeq(t, i, RunEnd(t, SkipSpaces(t, i + 2)))

\* price_raw, price_num of the text of a card
preco_do_bloco(text) ==
    parse_price_text(IF MatchStarts(text, {"R", "r"}) = {} THEN << >>
                     ELSE Group0(text, {"R", "r"}))

\* "if price_num is None: continue"
tem_preco(e) == ~preco_do_bloco(e.texto).valor.none

\* the rows parse_listing_html appends to results: the links that are
\* profile links, have a name and a price
resultados(entradas) ==
    LET aceitas == SelectSeq(entradas, LAMBDA e : e.perfil /\ e.nome # "" /\ tem_preco(e))
    IN [k \in 1..Len(aceitas) |->
          [nome |-> aceitas[k].nome, preco |-> preco_do_bloco(aceitas[k].texto).valor,
           preco_raw |-> preco_do_bloco(aceitas[k].texto).raw, url |-> aceitas[k].url]]

\* uniq[r["url"]] = r; list(uniq.values()): one row per url, at the place of
\* the first and with the content of the last
RECURSIVE uniq_por_url(_, _)
uniq_por_url(rs, k) ==
    IF k > Len(rs) THEN << >>
    ELSE (IF \E j \in 1..(k - 1) : rs[j].url = rs[k].url THEN << >>
          ELSE << rs[CHOOSE j \in k..Len(rs) :
                       /\ rs[j].url = rs[k].url
                       /\ \A i \in (j + 1)..Len(rs) : rs[i].url # rs[k].url] >>)
           \o uniq_por_url(rs, k + 1)

parse_listing_html(entradas) == uniq_por_url(resultados(entradas), 1)

\* df[df["preco"].notna()].drop_duplicates(subset=["url", "preco"])
df_final(rows) ==
    LET com == SelectSeq(rows, LAMBDA r : ~r.preco.none)
        primeiros == {k \in 1..Len(com) :
                        \A j \in 1..(k - 1) : ~(com[j].url = com[k].url
                                                  /\ com[j].preco = com[k].preco)}
        RECURSIVE manter(_)
        manter(k) == IF k > Len(com) THEN << >>
                     ELSE (IF k \in primeiros THEN << com[k] >> ELSE << >>) \o manter(k + 1)
    IN manter(1)

(***************************************************************************)
(* Inputs of the Doctoralia scraper                                        *)
(***************************************************************************)
\* the pages visited per city (MAX_PAGES is 100)
MaxPaginasDoc == 2

\* a link of a search page: whether it is a profile link, its text, its
\* address and the text of the card around it
Entrada(perfil, nome, url, texto) ==
    [perfil |-> perfil, nome |-> nome, url |-> url, texto |-> texto]

EntradaAna == Entrada(TRUE, "Ana", << "ana", 0 >>, << "R", "$", " ", "1", "8", "0" >>)

\* the same profile again, with another price text
EntradaAna2 ==
    Entrada(TRUE, "Ana", << "ana", 0 >>, << "a", " ", "r", "$", "2", "0", "0", ",", "5", "0" >>)

\* a card without a price and a card whose amount is no number
EntradaBia ==
    Entrada(TRUE, "Bia", << "bia", 0 >>, << "a", " ", "c", "o", "m", "b", "i", "n", "a", "r" >>)

EntradaCaio == Entrada(TRUE, "Caio", << "caio", 0 >>, << "R", "$", " ", "1", ",", "2", ",", "3" >>)

\* a link that is no profile link and a profile link without text
EntradaMenu == Entrada(FALSE, "Planos", << "planos", 0 >>, << "R", "$", " ", "9", "9" >>)

EntradaSemNome == Entrada(TRUE, "", << "dea", 0 >>, << "R", "$", " ", "1", "5", "0" >>)

\* the search results of one city: its pages, or a listing whose every page
\* shows a profile not shown before
ListagensDoc ==
    { [sem_fim |-> FALSE, paginas |-> << << EntradaAna, EntradaBia, EntradaMenu >>,
                                         << EntradaCaio, EntradaAna2, EntradaSemNome >> >>],
      [sem_fim |-> FALSE, paginas |-> << << EntradaAna, EntradaAna2 >> >>],
      [sem_fim |-> FALSE, paginas |-> << << >>, << EntradaAna >> >>],
      [sem_fim |-> TRUE, paginas |-> << >>] }

SitesDoc == [1..NumCidades -> ListagensDoc]

\* the links of page p of the search of city c
pagina_doc(s, c, p) ==
    IF s[c].sem_fim
    THEN << Entrada(TRUE, "Novo", << "novo", p >>, << "R", "$", " ", "1", "0", "0" >>) >>
    ELSE IF p <= Len(s[c].paginas) THEN s[c].paginas[p] ELSE << >>

(***************************************************************************)
(* State                                                                   *)
(***************************************************************************)
VARIABLES
    \* script 01
    pc,           \* position in main of script 01
    arquivos,     \* the five price files on disk, each a sequence of rows
    df_all,       \* main's df_all
    df_prepared,  \* main's df_prepared (output/dados_precos_unificados.csv)
    grp,          \* main's grp (output/precos_por_municipio.csv)
    \* merge scripts 02
    script,       \* which merge script runs: "exemplo" or "multi_anos"
    pcm,          \* position in main of the merge script
    disco,        \* the input files on disk
    precos,       \* main's precos
    municipios,   \* main's municipios
    precos_ibge,  \* main's precos_ibge
    impresso,     \* the count main prints after anexar_ibge_a_precos
    caps,         \* main's caps
    ment,         \* main's ment
    ment_filt,    \* main's ment_filt
    ment_agg,     \* main's ment_agg
    base,         \* main's base (the joined output)
    saida,        \* the output file of the merge script (output/base_precos_mentais_*.csv)
    \* price parsers of the scrapers
    pcp,          \* position of the parser call
    scraper,      \* whose parser runs: "boaconsulta" or "doctoralia"
    texto,        \* the text handed to the parser
    lido,         \* the value the parser returned
    \* BoaConsulta scraper
    pcs,          \* position in main of the scraper
    site,         \* the listings and profile pages the site serves
    csv0,         \* OUTPUT_FILE as it was before the run
    csv,          \* OUTPUT_FILE at its path
    buffer,       \* what main wrote to the open file and is not yet in it
    seen,         \* main's seen
    cache,        \* CACHE_DIR: profile id -> saved page
    cidade,       \* index in CITY_SLUGS of the city being scraped
    pagina,       \* the page of scrape_city's loop
    tarefas,      \* the futures of parse_cards, one per profile
    pedidos,      \* the requests for profile pages sent to the site
    execucao,     \* the number of the run of the scraper, from 1
    listadas,     \* the listing pages requested in this run, with the outcome
    \* Doctoralia scraper
    pcd,          \* position in scrape_professional_type and main
    dsite,        \* the search results of the site, per city
    dcidade,      \* the index of the city in CITY_SLUGS
    dpagina,      \* page of the loop
    seen_urls,    \* the urls taken in this city
    all_rows,     \* the rows collected
    buscas,       \* the search pages requested, with the outcome
    doc_csv,      \* doctoralia_psicologos.csv
    \* per-state notification counts
    pcu,          \* position in the loader of the notification counts
    analise,      \* the script that runs: "analise" or "graficos"
    sg_uf,        \* the SG_UF column of the MENTBR files
    ment_summary, \* the count of notifications per UF
    \* normalize_str applied to one text
    pcn,          \* position: "start", "once", "twice"
    entrada,      \* the text given
    norm1,        \* normalize_str(entrada)
    norm2         \* normalize_str(norm1)

vars01 == << pc, arquivos, df_all, df_prepared, grp >>

varsM == << script, pcm, disco, precos, municipios, precos_ibge, impresso, caps,
            ment, ment_filt, ment_agg, base, saida >>

varsP == << pcp, scraper, texto, lido >>

\* the variables of the programs other than script 01 and the merge scripts
varsS ==
    << pcs, site, csv0, csv, buffer, seen, cache, cidade, pagina, tarefas, pedidos,
       execucao, listadas >>

varsD == << pcd, dsite, dcidade, dpagina, seen_urls, all_rows, buscas, doc_csv >>

varsU == << pcu, analise, sg_uf, ment_summary >>

varsN == << pcn, entrada, norm1, norm2 >>

varsX == << varsP, varsS, varsU, varsN, varsD >>

vars == << vars01, varsM, varsX >>

\* the merge scripts are not running
MergeParado ==
    /\ script = "nenhum"
    /\ pcm = "parado"
    /\ disco = << >>
    /\ precos = << >>
    /\ municipios = << >>
    /\ precos_ibge = << >>
    /\ impresso = 0
    /\ caps = << >>
    /\ ment = << >>
    /\ ment_filt = << >>
    /\ ment_agg = << >>
    /\ base = << >>
    /\ saida = SaidaAusente

\* script 01 is not running
PrepParado ==
    /\ pc = "parado"
    /\ arquivos = << >>
    /\ df_all = << >>
    /\ df_prepared = << >>
    /\ grp = {}

\* no price parser is running
ParseParado ==
    /\ pcp = "parado"
    /\ scraper = "nenhum"
    /\ texto = << >>
    /\ lido = PrecoNone

\* the scraper is not running
ScraperParado ==
    /\ pcs = "parado"
    /\ site = << >>
    /\ csv0 = CsvAusente
    /\ csv = CsvAusente
    /\ buffer = BufferVazio
    /\ seen = {}
    /\ cache = << >>
    /\ cidade = 0
    /\ pagina = 0
    /\ tarefas = << >>
    /\ pedidos = << >>
    /\ execucao = 0
    /\ listadas = << >>

\* the Doctoralia scraper is not running
DocParado ==
    /\ pcd = "parado"
    /\ dsite = << >>
    /\ dcidade = 0
    /\ dpagina = 0
    /\ seen_urls = {}
    /\ all_rows = << >>
    /\ buscas = << >>
    /\ doc_csv = CsvAusente

\* no notification count is being computed
UfParado ==
    /\ pcu = "parado"
    /\ analise = "nenhum"
    /\ sg_uf = << >>
    /\ ment_summary = << >>

\* normalize_str is not being exercised
NormParado ==
    /\ pcn = "parado"
    /\ entrada = << >>
    /\ norm1 = << >>
    /\ norm2 = << >>

(***************************************************************************)
(* Script 01: main                                                         *)
(***************************************************************************)
Init ==
    /\ pc = "start"
    /\ \E s \in Entradas : arquivos = [i \in 1..5 |-> arquivo_de(s, i)]
    /\ df_all = << >>
    /\ df_prepared = << >>
    /\ grp = {}
    /\ MergeParado
    /\ ParseParado
    /\ ScraperParado
    /\ UfParado
    /\ NormParado
    /\ DocParado

\* steps 1-2: load the five files and concatenate them
Carregar ==
    /\ pc = "start"
    /\ df_all' = concat_arquivos(arquivos)
    /\ pc' = "carregado"
    /\ UNCHANGED << arquivos, df_prepared, grp, varsM, varsX >>

\* step 3: df_all = aplicar_municipio_oficial(df_all)
Aplicar ==
    /\ pc = "carregado"
    /\ df_all' = aplicar_municipio_oficial(df_all)
    /\ pc' = "oficial"
    /\ UNCHANGED << arquivos, df_prepared, grp, varsM, varsX >>

\* steps 4-5: df_prepared = preparar_precos(df_all), saved
Preparar ==
    /\ pc = "oficial"
    /\ df_prepared' = preparar_precos(df_all)
    /\ pc' = "preparado"
    /\ UNCHANGED << arquivos, df_all, grp, varsM, varsX >>

\* step 6: the groupby, saved
Agregar ==
    /\ pc = "preparado"
    /\ grp' = agregar_precos(df_prepared)
    /\ pc' = "done"
    /\ UNCHANGED << arquivos, df_all, df_prepared, varsM, varsX >>

Next == Carregar \/ Aplicar \/ Preparar \/ Agregar

Spec == Init /\ [][Next]_vars

(***************************************************************************)
(* Merge scripts 02: main                                                  *)
(***************************************************************************)
InitMerge ==
    /\ script \in {"exemplo", "multi_anos"}
    /\ pcm = "start"
    /\ disco \in DiscosJuncao \cup DiscosMunicipios \cup DiscosMentais \cup DiscosAusentes
                  \cup DiscosUF \cup DiscosMentaisAno
    /\ precos = << >>
    /\ municipios = << >>
    /\ precos_ibge = << >>
    /\ impresso = 0
    /\ caps = << >>
    /\ ment = << >>
    /\ ment_filt = << >>
    /\ ment_agg = << >>
    /\ base = << >>
    /\ saida \in IF disco \in DiscosAusentes THEN {SaidaAusente, SaidaAnterior}
                 ELSE {SaidaAusente}
    /\ PrepParado
    /\ ParseParado
    /\ ScraperParado
    /\ UfParado
    /\ NormParado
    /\ DocParado

\* precos = carregar_precos_municipio(), FileNotFoundError without the file
CarregarPrecos ==
    /\ pcm = "start"
    /\ IF ~disco.precos.existe
       THEN pcm' = "erro" /\ UNCHANGED precos
       ELSE /\ precos' = carregar_precos_municipio(disco.precos.linhas)
            /\ pcm' = "precos"
    /\ UNCHANGED << script, disco, municipios, precos_ibge, impresso, caps, ment,
                    ment_filt, ment_agg, base, saida, vars01, varsX >>

\* municipios = carregar_municipios(), FileNotFoundError without the file
CarregarMunicipios ==
    /\ pcm = "precos"
    /\ IF ~disco.municipios.existe \/ carregar_municipios(script, disco.municipios).erro
       THEN pcm' = "erro" /\ UNCHANGED municipios
       ELSE /\ municipios' = carregar_municipios(script, disco.municipios).df
            /\ pcm' = "municipios"
    /\ UNCHANGED << script, disco, precos, precos_ibge, impresso, caps, ment,
                    ment_filt, ment_agg, base, saida, vars01, varsX >>

\* precos_ibge = anexar_ibge_a_precos(precos, municipios) and the printed count
AnexarIbge ==
    /\ pcm = "municipios"
    /\ precos_ibge' = anexar_ibge_a_precos(script, precos, municipios)
    /\ impresso' = contar_preenchidos(precos_ibge')
    /\ pcm' = "anexado"
    /\ UNCHANGED << script, disco, precos, municipios, caps, ment, ment_filt,
                    ment_agg, base, saida, vars01, varsX >>

\* caps = carregar_caps()
CarregarCaps ==
    /\ pcm = "anexado"
    /\ caps' = carregar_caps(script, disco.caps)
    /\ pcm' = "caps"
    /\ UNCHANGED << script, disco, precos, municipios, precos_ibge, impresso, ment,
                    ment_filt, ment_agg, base, saida, vars01, varsX >>

\* ment = carregar_mentais(), RuntimeError when no file was loaded
CarregarMentais ==
    /\ pcm = "caps"
    /\ IF carregar_mentais(disco.ment).erro
       THEN pcm' = "erro" /\ UNCHANGED ment
       ELSE /\ ment' = carregar_mentais(disco.ment).df
            /\ pcm' = "mentais"
    /\ UNCHANGED << script, disco, precos, municipios, precos_ibge, impresso, caps,
                    ment_filt, ment_agg, base, saida, vars01, varsX >>

\* ment_filt = filtrar_f32_f41(ment)
Filtrar ==
    /\ pcm = "mentais"
    /\ ment_filt' = filtrar_f32_f41(ment)
    /\ pcm' = "filtrado"
    /\ UNCHANGED << script, disco, precos, municipios, precos_ibge, impresso, caps,
                    ment, ment_agg, base, saida, vars01, varsX >>

\* ment_agg = agregar_mentais_por_municipio_ano(ment_filt)
AgregarMentais ==
    /\ pcm = "filtrado"
    /\ ment_agg' = agregar_mentais_por_municipio_ano(ment_filt)
    /\ pcm' = "agregado"
    /\ UNCHANGED << script, disco, precos, municipios, precos_ibge, impresso, caps,
                    ment, ment_filt, base, saida, vars01, varsX >>

\* the two left joins of main and the save of base (os.makedirs, to_csv)
Juntar ==
    /\ pcm = "agregado"
    /\ base' = juntar_caps(juntar_mentais(script, precos_ibge, ment_agg), caps)
    /\ saida' = to_csv(base')
    /\ pcm' = "done"
    /\ UNCHANGED << script, disco, precos, municipios, precos_ibge, impresso, caps,
                    ment, ment_filt, ment_agg, vars01, varsX >>

NextMerge ==
    \/ CarregarPrecos
    \/ CarregarMunicipios
    \/ AnexarIbge
    \/ CarregarCaps
    \/ CarregarMentais
    \/ Filtrar
    \/ AgregarMentais
    \/ Juntar

SpecMerge == InitMerge /\ [][NextMerge]_vars

(***************************************************************************)
(* Price parsers: one call                                                 *)
(***************************************************************************)
InitParse ==
    /\ pcp = "start"
    /\ scraper \in {"boaconsulta", "doctoralia"}
    /\ texto \in TextosPreco
    /\ lido = PrecoNone
    /\ PrepParado
    /\ MergeParado
    /\ ScraperParado
    /\ UfParado
    /\ NormParado
    /\ DocParado

\* price = parse_price(text) / price_raw, price_num = parse_price_text(text)
ParsePrice ==
    /\ pcp = "start"
    /\ lido' = preco_lido(scraper, texto)
    /\ pcp' = "done"
    /\ UNCHANGED << scraper, texto, vars01, varsM, varsS, varsU, varsN, varsD >>

NextParse == ParsePrice

SpecParse == InitParse /\ [][NextParse]_vars

(***************************************************************************)
(* BoaConsulta scraper: main, scrape_city, parse_cards and the worker      *)
(* threads of extract_crp_and_price                                        *)
(***************************************************************************)
InitScraper ==
    /\ pcs = "start"
    /\ site \in Sites
    /\ csv0 \in {CsvAusente, CsvAnterior}
    /\ csv = csv0
    /\ buffer = BufferVazio
    /\ seen = {}
    /\ cache \in CachesIniciais
    /\ cidade = 1
    /\ pagina = 1
    /\ tarefas = << >>
    /\ pedidos = << >>
    /\ execucao = 1
    /\ listadas = << >>
    /\ PrepParado
    /\ MergeParado
    /\ ParseParado
    /\ UfParado
    /\ NormParado
    /\ DocParado

varsOutros == << vars01, varsM, varsP, varsU, varsN, varsD >>

\* main up to the loop: file_exists, load_seen_from_csv, open(OUTPUT_FILE,
\* "a") (which creates the file) and the header for a new file
Abrir ==
    /\ pcs = "start"
    /\ seen' = load_seen_from_csv(csv)
    /\ csv' = [csv EXCEPT !.existe = TRUE]
    /\ buffer' = [cabecalho |-> ~csv.existe, linhas |-> << >>]
    /\ pcs' = "pagina"
    /\ UNCHANGED << site, csv0, cache, cidade, pagina, tarefas, pedidos, execucao, listadas, varsOutros >>

\* mutant of proxima_cidade: the city loop ends after the city at hand
proxima_cidade_fim == pcs' = "fechar" /\ UNCHANGED << cidade, pagina >>

\* the next city of main's loop, or the end of the with block
proxima_cidade ==
    IF cidade < NumCidades
    THEN cidade' = cidade + 1 /\ pagina' = 1 /\ pcs' = "pagina"
    ELSE pcs' = "fechar" /\ UNCHANGED << cidade, pagina >>

\* the next page of scrape_city's loop
proxima_pagina ==
    IF pagina < MaxPaginas
    THEN pagina' = pagina + 1 /\ pcs' = "pagina" /\ UNCHANGED cidade
    ELSE proxima_cidade

\* mutant of BuscarPagina: a page without a new profile does not end the city
BuscarPagina_sem_break ==
    /\ pcs = "pagina"
    /\ \E ok \in BOOLEAN :
         IF ~ok
         THEN /\ proxima_pagina
              /\ listadas' = Append(listadas, [cidade |-> cidade, pagina |-> pagina,
                                               ok |-> FALSE, novos |-> 0])
              /\ UNCHANGED << seen, tarefas >>
         ELSE LET profiles == novos_perfis(cards_da_pagina(site, cidade, pagina), seen,
                                           CITY_SLUGS[cidade])
              IN /\ seen' = seen \cup {<< profiles[k].nome, profiles[k].url >> :
                                         k \in 1..Len(profiles)}
                 /\ listadas' = Append(listadas, [cidade |-> cidade, pagina |-> pagina,
                                                  ok |-> TRUE, novos |-> Len(profiles)])
                 /\ IF profiles = << >>
                    THEN proxima_pagina /\ UNCHANGED tarefas
                    ELSE /\ tarefas' = [k \in 1..Len(profiles) |->
                                          [perfil |-> profiles[k], estado |-> "fila",
                                           html |-> PerfisDoSite["bia"],
                                           resultado |-> SemResultado]]
                         /\ pcs' = "coletando"
                         /\ UNCHANGED << cidade, pagina >>
    /\ UNCHANGED << site, csv0, csv, buffer, cache, pedidos, execucao, varsOutros >>

\* one turn of scrape_city's loop up to the submits of parse_cards: the
\* listing page is fetched (the fetch may fail: continue); the new profiles
\* are added to seen and handed to the executor; without a new profile the
\* loop breaks
BuscarPagina ==
    /\ pcs = "pagina"
    /\ \E ok \in BOOLEAN :
         IF ~ok
         THEN /\ proxima_pagina
              /\ listadas' = Append(listadas, [cidade |-> cidade, pagina |-> pagina,
                                               ok |-> FALSE, novos |-> 0])
              /\ UNCHANGED << seen, tarefas >>
         ELSE LET profiles == novos_perfis(cards_da_pagina(site, cidade, pagina), seen,
                                           CITY_SLUGS[cidade])
              IN /\ seen' = seen \cup {<< profiles[k].nome, profiles[k].url >> :
                                         k \in 1..Len(profiles)}
                 /\ listadas' = Append(listadas, [cidade |-> cidade, pagina |-> pagina,
                                                  ok |-> TRUE, novos |-> Len(profiles)])
                 /\ IF profiles = << >>
                    THEN proxima_cidade /\ UNCHANGED tarefas
                    ELSE /\ tarefas' = [k \in 1..Len(profiles) |->
                                          [perfil |-> profiles[k], estado |-> "fila",
                                           html |-> PerfisDoSite["bia"],
                                           resultado |-> SemResultado]]
                         /\ pcs' = "coletando"
                         /\ UNCHANGED << cidade, pagina >>
    /\ UNCHANGED << site, csv0, csv, buffer, cache, pedidos, execucao, varsOutros >>

\* a worker: get_profile_id and get_profile_from_cache
VerificarCache(t) ==
    /\ tarefas[t].estado = "fila"
    /\ LET id == get_profile_id(tarefas[t].perfil.url)
       IN tarefas' =
            [tarefas EXCEPT ![t] =
               IF id = "" THEN [@ EXCEPT !.estado = "pronta"]
               ELSE IF id \in DOMAIN cache
               THEN [@ EXCEPT !.estado = "pronta", !.html = cache[id],
                                !.resultado = extrair_perfil(cache[id])]
               ELSE [@ EXCEPT !.estado = "baixar"]]
    /\ UNCHANGED << pcs, site, csv0, csv, buffer, seen, cache, cidade, pagina, pedidos,
                    execucao, listadas, varsOutros >>

\* mutant of Baixar: a failed download leaves a cache file behind
Baixar_falha_grava(t) ==
    /\ tarefas[t].estado = "baixar"
    /\ LET id == get_profile_id(tarefas[t].perfil.url)
       IN /\ pedidos' = Append(pedidos, [id |-> id, em_cache |-> id \in DOMAIN cache])
          /\ \E ok \in BOOLEAN :
               IF ok /\ id \in DOMAIN site.perfis
               THEN /\ tarefas' = [tarefas EXCEPT ![t] =
                                     [@ EXCEPT !.estado = "salvar", !.html = site.perfis[id]]]
                    /\ UNCHANGED cache
               ELSE /\ tarefas' = [tarefas EXCEPT ![t] = [@ EXCEPT !.estado = "pronta"]]
                    /\ cache' = [i \in DOMAIN cache \cup {id} |->
                                   IF i = id THEN PaginaParcial ELSE cache[i]]
    /\ UNCHANGED << pcs, site, csv0, csv, buffer, seen, cidade, pagina, execucao, listadas,
                    varsOutros >>

\* a worker: fetch_page(profile_url), a request to the site; a failure gives
\* (None, None, None)
Baixar(t) ==
    /\ tarefas[t].estado = "baixar"
    /\ LET id == get_profile_id(tarefas[t].perfil.url)
       IN /\ pedidos' = Append(pedidos, [id |-> id, em_cache |-> id \in DOMAIN cache])
          /\ \E ok \in BOOLEAN :
               tarefas' =
                 [tarefas EXCEPT ![t] =
                    IF ok /\ id \in DOMAIN site.perfis
                    THEN [@ EXCEPT !.estado = "salvar", !.html = site.perfis[id]]
                    ELSE [@ EXCEPT !.estado = "pronta"]]
    /\ UNCHANGED << pcs, site, csv0, csv, buffer, seen, cache, cidade, pagina, execucao, listadas, varsOutros >>

\* a worker: save_profile_to_cache opens the cache file for writing, which
\* creates it empty
AbrirCache(t) ==
    /\ tarefas[t].estado = "salvar"
    /\ LET id == get_profile_id(tarefas[t].perfil.url)
       IN cache' = [i \in DOMAIN cache \cup {id} |->
                      IF i = id THEN PaginaParcial ELSE cache[i]]
    /\ tarefas' = [tarefas EXCEPT ![t] = [@ EXCEPT !.estado = "escrevendo"]]
    /\ UNCHANGED << pcs, site, csv0, csv, buffer, seen, cidade, pagina, pedidos, execucao,
                    listadas, varsOutros >>

\* a worker: the page reaches the cache file (write and close) and is parsed
Salvar(t) ==
    /\ tarefas[t].estado = "escrevendo"
    /\ LET id == get_profile_id(tarefas[t].perfil.url)
       IN cache' = [i \in DOMAIN cache \cup {id} |->
                      IF i = id THEN tarefas[t].html ELSE cache[i]]
    /\ tarefas' = [tarefas EXCEPT ![t] = [@ EXCEPT !.estado = "pronta",
                                             !.resultado = extrair_perfil(tarefas[t].html)]]
    /\ UNCHANGED << pcs, site, csv0, csv, buffer, seen, cidade, pagina, pedidos, execucao,
                    listadas, varsOutros >>

\* mutant of Coletar: the loop leaves for the next page after the first
\* finished future, the executor being left running
Coletar_sem_esperar(t) ==
    /\ pcs = "coletando"
    /\ tarefas[t].estado = "pronta"
    /\ buffer' = IF sem_preco(tarefas[t].resultado.preco) THEN buffer
                 ELSE [buffer EXCEPT !.linhas =
                         Append(@, linha_csv(tarefas[t].perfil, tarefas[t].resultado))]
    /\ tarefas' = [tarefas EXCEPT ![t] = [@ EXCEPT !.estado = "coletada"]]
    /\ proxima_pagina
    /\ UNCHANGED << site, csv0, csv, seen, cache, pedidos, execucao, listadas, varsOutros >>

\* main in the as_completed loop: the row of a finished future is written
\* when it has a price; after the last future, the next page
Coletar(t) ==
    /\ pcs = "coletando"
    /\ tarefas[t].estado = "pronta"
    /\ buffer' = IF sem_preco(tarefas[t].resultado.preco) THEN buffer
                 ELSE [buffer EXCEPT !.linhas =
                         Append(@, linha_csv(tarefas[t].perfil, tarefas[t].resultado))]
    /\ IF \A u \in DOMAIN tarefas : u # t => tarefas[u].estado = "coletada"
       THEN tarefas' = << >> /\ proxima_pagina
       ELSE /\ tarefas' = [tarefas EXCEPT ![t] = [@ EXCEPT !.estado = "coletada"]]
            /\ UNCHANGED << pcs, cidade, pagina >>
    /\ UNCHANGED << site, csv0, csv, seen, cache, pedidos, execucao, listadas, varsOutros >>

\* the buffer of the open file reaches the file
Flush ==
    /\ pcs \in {"pagina", "coletando", "fechar"}
    /\ buffer # BufferVazio
    /\ csv' = descarregar(csv, buffer)
    /\ buffer' = BufferVazio
    /\ UNCHANGED << pcs, site, csv0, seen, cache, cidade, pagina, tarefas, pedidos,
                    execucao, listadas, varsOutros >>

\* the end of the with block: the file is closed
Fechar ==
    /\ pcs = "fechar"
    /\ csv' = descarregar(csv, buffer)
    /\ buffer' = BufferVazio
    /\ pcs' = "fim"
    /\ UNCHANGED << site, csv0, seen, cache, cidade, pagina, tarefas, pedidos, execucao, listadas, varsOutros >>

\* the run is interrupted: Ctrl-C closes the file with what was written, a
\* kill loses the buffer; the futures are not followed any further
Interromper ==
    /\ pcs \in {"pagina", "coletando", "fechar"}
    /\ \E limpo \in BOOLEAN :
         csv' = IF limpo THEN descarregar(csv, buffer) ELSE csv
    /\ buffer' = BufferVazio
    /\ tarefas' = << >>
    /\ pcs' = "interrompido"
    /\ UNCHANGED << site, csv0, seen, cache, cidade, pagina, pedidos, execucao, listadas, varsOutros >>

\* the script is run again after a run ended: the output file and the cache
\* directory are as the earlier run left them
NovaExecucao ==
    /\ pcs \in {"fim", "interrompido"}
    /\ execucao < MaxExecucoes
    /\ execucao' = execucao + 1
    /\ pcs' = "start"
    /\ csv0' = csv
    /\ seen' = {}
    /\ cidade' = 1
    /\ pagina' = 1
    /\ pedidos' = << >>
    /\ listadas' = << >>
    /\ UNCHANGED << site, csv, buffer, cache, tarefas, varsOutros >>

NextScraper ==
    \/ Abrir
    \/ BuscarPagina
    \/ \E t \in DOMAIN tarefas : VerificarCache(t)
    \/ \E t \in DOMAIN tarefas : Baixar(t)
    \/ \E t \in DOMAIN tarefas : AbrirCache(t)
    \/ \E t \in DOMAIN tarefas : Salvar(t)
    \/ \E t \in DOMAIN tarefas : Coletar(t)
    \/ Flush
    \/ Fechar
    \/ Interromper
    \/ NovaExecucao

SpecScraper == InitScraper /\ [][NextScraper]_vars


(***************************************************************************)
(* Doctoralia scraper: scrape_professional_type and main                   *)
(***************************************************************************)
InitDoctoralia ==
    /\ pcd = "pagina"
    /\ dsite \in SitesDoc
    /\ dcidade = 1
    /\ dpagina = 1
    /\ seen_urls = {}
    /\ all_rows = << >>
    /\ buscas = << >>
    /\ doc_csv = CsvAusente
    /\ PrepParado
    /\ MergeParado
    /\ ParseParado
    /\ ScraperParado
    /\ UfParado
    /\ NormParado

\* the page loop of a city ends (break, or MAX_PAGES reached): the next
\* city with an empty seen_urls, or the end of the city loop
proxima_cidade_doc ==
    IF dcidade < NumCidades
    THEN dcidade' = dcidade + 1 /\ dpagina' = 1 /\ seen_urls' = {} /\ pcd' = "pagina"
    ELSE pcd' = "montar" /\ UNCHANGED << dcidade, dpagina, seen_urls >>

\* one turn of the page loop: get_search_page (a failure breaks),
\* parse_listing_html, the rows not seen; no new row after page 1 breaks
BuscarPesquisa ==
    /\ pcd = "pagina"
    /\ \E ok \in BOOLEAN :
         /\ buscas' = Append(buscas, [cidade |-> dcidade, pagina |-> dpagina, ok |-> ok])
         /\ IF ~ok
            THEN proxima_cidade_doc /\ UNCHANGED all_rows
            ELSE LET rows == parse_listing_html(pagina_doc(dsite, dcidade, dpagina))
                     new_rows == SelectSeq(rows, LAMBDA r : r.url \notin seen_urls)
                 IN IF new_rows = << >> /\ dpagina > 1
                    THEN proxima_cidade_doc /\ UNCHANGED all_rows
                    ELSE /\ all_rows' = all_rows \o
                              [k \in 1..Len(new_rows) |->
                                 [nome |-> new_rows[k].nome, preco |-> new_rows[k].preco,
                                  preco_raw |-> new_rows[k].preco_raw,
                                  url |-> new_rows[k].url,
                                  cidade_slug |-> CITY_SLUGS[dcidade]]]
                         /\ IF dpagina < MaxPaginasDoc
                            THEN /\ dpagina' = dpagina + 1
                                 /\ seen_urls' = seen_urls \cup
                                      {new_rows[k].url : k \in 1..Len(new_rows)}
                                 /\ UNCHANGED << pcd, dcidade >>
                            ELSE proxima_cidade_doc
    /\ UNCHANGED << dsite, doc_csv, vars01, varsM, varsP, varsS, varsU, varsN >>

\* the end of scrape_professional_type (the rows with a price, without
\* duplicates of url and price) and main: the file is written when the
\* frame is not empty
MontarDf ==
    /\ pcd = "montar"
    /\ doc_csv' = IF df_final(all_rows) = << >> THEN doc_csv
                  ELSE [existe |-> TRUE, cabecalho |-> TRUE, linhas |-> df_final(all_rows)]
    /\ pcd' = "fim"
    /\ UNCHANGED << dsite, dcidade, dpagina, seen_urls, all_rows, buscas,
                    vars01, varsM, varsP, varsS, varsU, varsN >>

NextDoctoralia == BuscarPesquisa \/ MontarDf

SpecDoctoralia == InitDoctoralia /\ [][NextDoctoralia]_vars

(***************************************************************************)
(* A run of one of the scrapers                                            *)
(***************************************************************************)
InitScrapers == InitScraper \/ InitDoctoralia

NextScrapers == NextScraper \/ NextDoctoralia

SpecScrapers == InitScrapers /\ [][NextScrapers]_vars

\* the steps of the BoaConsulta scraper itself: the main thread and the
\* workers of the executor
PassoScraper ==
    \/ Abrir
    \/ BuscarPagina
    \/ \E t \in DOMAIN tarefas :
         VerificarCache(t) \/ Baixar(t) \/ AbrirCache(t) \/ Salvar(t) \/ Coletar(t)
    \/ Fechar

\* one run of one of the scrapers whose threads keep being scheduled: every
\* request ends (timeout of 25 s and 20 s, five retries), the sleeps end, and
\* no step waits for anything but the steps before it
NextUmaExecucao == PassoScraper \/ Flush \/ Interromper \/ NextDoctoralia

SpecScrapersJusta ==
    InitScrapers /\ [][NextUmaExecucao]_vars /\ WF_vars(PassoScraper) /\ WF_vars(NextDoctoralia)

(***************************************************************************)
(* Per-state notification counts: load_notificacoes_transtornos_mentais    *)
(* and load_notificacoes_uf                                                *)
(***************************************************************************)
InitUF ==
    /\ pcu = "start"
    /\ analise \in {"analise", "graficos"}
    /\ sg_uf \in SeqsUpTo(CodigosNotif, MaxNotif)
    /\ ment_summary = << >>
    /\ PrepParado
    /\ MergeParado
    /\ ParseParado
    /\ ScraperParado
    /\ NormParado
    /\ DocParado

\* the loader: UF_ibge, the map to UF and the count per UF
ResumirUF ==
    /\ pcu = "start"
    /\ ment_summary' = resumo_por_uf(analise, sg_uf)
    /\ pcu' = "done"
    /\ UNCHANGED << analise, sg_uf, vars01, varsM, varsP, varsS, varsN, varsD >>

NextUF == ResumirUF

SpecUF == InitUF /\ [][NextUF]_vars

(***************************************************************************)
(* normalize_str: one call and a call on its result                        *)
(***************************************************************************)
\* the longest text given
MaxNorm == 5

\* a letter, an accented capital, a cedilla and the space
AlfabetoNorm == {"a", "Á", "ç", " "}

TextosNorm == SeqsUpTo(AlfabetoNorm, MaxNorm) \cup {NaN}

InitNorm ==
    /\ pcn = "start"
    /\ entrada \in TextosNorm
    /\ norm1 = << >>
    /\ norm2 = << >>
    /\ PrepParado
    /\ MergeParado
    /\ ParseParado
    /\ ScraperParado
    /\ UfParado
    /\ DocParado

Normalizar ==
    /\ pcn = "start"
    /\ norm1' = normalize_str(entrada)
    /\ pcn' = "once"
    /\ UNCHANGED << entrada, norm2, vars01, varsM, varsP, varsS, varsU, varsD >>

Renormalizar ==
    /\ pcn = "once"
    /\ norm2' = normalize_str(norm1)
    /\ pcn' = "twice"
    /\ UNCHANGED << entrada, norm1, vars01, varsM, varsP, varsS, varsU, varsD >>

NextNorm == Normalizar \/ Renormalizar

SpecNorm == InitNorm /\ [][NextNorm]_vars

(***************************************************************************)
(* Claims about script 01                                                  *)
(***************************************************************************)
Aplicado == pc \in {"oficial", "preparado", "done"}

\* C1: after aplicar_municipio_oficial, every record whose cidade_slug is a
\* key of CITY_SLUG_TO_NAME_UF has (cidade_oficial, uf_oficial) equal to the
\* table's (display name, state) pair, whatever its raw cidade and uf are.
C1_SlugOverride ==
    Aplicado =>
      \A k \in 1..Len(df_all) :
        df_all[k].cidade_slug \in DOMAIN CITY_SLUG_TO_NAME_UF =>
          /\ df_all[k].cidade_oficial = CITY_SLUG_TO_NAME_UF[df_all[k].cidade_slug][1]
          /\ df_all[k].uf_oficial = CITY_SLUG_TO_NAME_UF[df_all[k].cidade_slug][2]

\* a record with a known slug whose raw city contradicts the table and whose
\* raw state is another state's, and one whose raw city and state are absent
C1_Witness ==
    /\ pc = "oficial"
    /\ \E k \in 1..Len(df_all) :
         /\ df_all[k].cidade_slug = "salvador-ba"
         /\ df_all[k].cidade = saopaulo_min
         /\ df_all[k].uf = << "R", "J" >>
         /\ df_all[k].cidade_oficial = Salvador

\* the input of the scenario: two 'São Paulo'/'SP' records priced 100 and 200
\* and one 'sao paulo'/'sp' record priced 300, of one type, none with a slug
C2_Scenario ==
    /\ arquivos[1] = << Linha(1, Ana, Num(100), SaoPaulo, << "S", "P" >>, SlugNaN),
                        Linha(1, Bia, Num(200), SaoPaulo, << "S", "P" >>, SlugNaN) >>
    /\ arquivos[3] = << Linha(3, Caio, Num(300), saopaulo_min, << "s", "p" >>, SlugNaN) >>
    /\ arquivos[2] = << >> /\ arquivos[4] = << >> /\ arquivos[5] = << >>

\* C2: records of one professional type whose city/state differ only in
\* casing, accents or whitespace end up in one single group: no two output
\* rows share (normalized city, state, type), and the scenario yields one row
\* with count 3, mean 200, median 200, min 100, max 300.
C2_OneGroupPerCity ==
    pc = "done" =>
      /\ \A a, b \in grp :
           (/\ a.cidade_norm = b.cidade_norm
            /\ a.uf_oficial = b.uf_oficial
            /\ a.tipo_profissional = b.tipo_profissional) => a = b
      /\ C2_Scenario =>
           /\ Cardinality(grp) = 1
           /\ \A g \in grp :
                /\ g.qtd_profissionais = 3
                /\ g.preco_medio = Frac(200, 1)
                /\ g.preco_mediano = Frac(200, 1)
                /\ g.preco_min = 100
                /\ g.preco_max = 300

\* the records of df_all (after aplicar_municipio_oficial) with a valid price
\* that fall in the group of output row g
ValidosDoGrupo(g) ==
    {k \in 1..Len(df_all) :
       /\ ~to_numeric(df_all[k].preco).na
       /\ grupo_key(df_all[k]) =
            << g.cidade_oficial, g.uf_oficial, g.cidade_norm, g.tipo_profissional >>}

Permute(s, p) == [i \in 1..Len(s) |-> s[p[i]]]

ComPreco == {k \in 1..Len(df_all) : df_all[k].preco.kind = "num"}

\* the professional-level row a priced row of df_all becomes
LinhaPreparada(r) ==
    [nome |-> Strip(astype_str(r.nome)), tipo_profissional |-> r.tipo_profissional,
     preco |-> r.preco.v, cidade_oficial |-> r.cidade_oficial,
     uf_oficial |-> r.uf_oficial, fonte |-> r.fonte, cidade_slug |-> r.cidade_slug,
     cidade_norm |-> r.cidade_norm]

RECURSIVE SomaQtd(_)
SomaQtd(S) ==
    IF S = {} THEN 0
    ELSE LET g == CHOOSE x \in S : TRUE IN g.qtd_profissionais + SomaQtd(S \ {g})

\* C12: preparar_precos removes every record whose preco is absent or not a
\* number before de-duplication and aggregation: the rows kept are exactly
\* the priced rows (duplicates once) with their own price, never 0 in place
\* of a missing one, no group counts a removed record, and the valid records
\* still give both output tables.
C12_InvalidPriceExcluded ==
    pc \in {"preparado", "done"} =>
      /\ \A i \in 1..Len(df_prepared) :
           \E k \in ComPreco : df_prepared[i] = LinhaPreparada(df_all[k])
      /\ Len(df_prepared) =
           Cardinality({<< LinhaPreparada(df_all[k]).nome, df_all[k].cidade_oficial,
                           df_all[k].uf_oficial, df_all[k].tipo_profissional,
                           df_all[k].preco.v >> : k \in ComPreco})
      /\ pc = "done" =>
           /\ SomaQtd(grp) = Len(df_prepared)
           /\ ComPreco # {} => (df_prepared # << >> /\ grp # {})

\* a finished run that read a record with text in place of the price and
\* priced records
C12_Witness ==
    /\ pc = "done"
    /\ \E k \in 1..Len(df_all) : df_all[k].preco.kind = "text"
    /\ Cardinality(ComPreco) = 2
    /\ grp # {}

\* C13: a record without a known city-slug keeps its raw cidade as
\* cidade_oficial and its raw uf as uf_oficial (compared here without regard
\* to letter case and surrounding spaces), and a record whose raw uf is
\* absent keeps an absent uf_oficial, not a text.
C13_RawFallback ==
    Aplicado =>
      \A k \in 1..Len(df_all) :
        df_all[k].cidade_slug \notin DOMAIN CITY_SLUG_TO_NAME_UF =>
          /\ df_all[k].cidade_oficial = df_all[k].cidade
          /\ IF isna(df_all[k].uf) THEN isna(df_all[k].uf_oficial)
             ELSE df_all[k].uf_oficial = Strip(Upper(df_all[k].uf))

(***************************************************************************)
(* Claims about the merge scripts                                          *)
(***************************************************************************)
Anexado == pcm \in {"anexado", "caps", "mentais", "filtrado", "agregado", "done"}

\* the price row l has the keys of no registry entry
SemRegistro(l) ==
    \A k \in 1..Len(municipios) :
      LET r == mun_para_join(script, municipios)[k]
      IN ~(l.cidade_norm = r.nome_norm /\ l.uf_oficial = r.SIGLA_UF)

\* C3: in the joined output, a price row that matched no registry entry has
\* null casos_f32_f41, ano and Qtd_caps: it matches no row of the
\* notification or CAPS tables, also when those hold rows whose own
\* municipality code is missing.
C3_NullPropagation ==
    pcm = "done" =>
      \A k \in 1..Len(base) :
        SemRegistro(base[k]) =>
          /\ base[k].casos_f32_f41 = NumNaN
          /\ base[k].ano = NumNaN
          /\ base[k].Qtd_caps = NumNaN

\* the columns of a price row
SoPreco(l) ==
    [cidade_oficial |-> l.cidade_oficial, tipo_profissional |-> l.tipo_profissional,
     cidade_norm |-> l.cidade_norm, uf_oficial |-> l.uf_oficial]

\* C4: every row of the municipality price table appears at least once in
\* the joined output of both merge scripts, whether or not its municipality
\* is in the registry and whether or not a notification or CAPS row exists
\* for it.
C4_NoPriceRowDropped ==
    pcm = "done" =>
      \A i \in 1..Len(precos) :
        \E k \in 1..Len(base) : SoPreco(base[k]) = precos[i]

\* a finished run with a price row outside the registry, a price row with
\* notifications and a price row without any
C4_Witness ==
    /\ pcm = "done"
    /\ Len(precos) = 2
    /\ \E k \in 1..Len(base) : SemRegistro(base[k])
    /\ \E k \in 1..Len(base) : ~SemRegistro(base[k]) /\ base[k].casos_f32_f41 # NumNaN
    /\ \E k \in 1..Len(base) : base[k].casos_f32_f41 = NumNaN

\* C5: anexar_ibge_a_precos attaches exactly one identifier to each price
\* row (one output row per input row), also when the registry holds several
\* entries with the same normalized name and state, and the identifier is
\* the same for every order of the registry rows.
C5_OneIdentifierPerRow ==
    Anexado =>
      /\ Len(precos_ibge) = Len(precos)
      /\ \A p \in Permutations(1..Len(municipios)) :
           LET outro == anexar_ibge_a_precos(script, precos, Permute(municipios, p))
           IN /\ Len(outro) = Len(precos_ibge)
              /\ \A k \in 1..Len(outro) : outro[k].cod_mun_ibge = precos_ibge[k].cod_mun_ibge

\* the ways of writing a code the claim names: an integer of at most 7
\* digits (short or zero-padded) or such a number with a decimal point
CodigoComum(t) ==
    \/ IsIntText(t) /\ Len(t) <= LARGURA_COD
    \/ IsFloatText(t) /\ DotPos(t) - 1 <= LARGURA_COD

\* C8: after carregar_municipios every CD_MUN is a text of exactly 7 digits,
\* whether the file gave the code as an integer, short, zero-padded or
\* written with a decimal point such as 3550308.0.
C8_SevenDigitCode ==
    (/\ pcm = "municipios"
     /\ \A k \in 1..Len(disco.municipios.linhas) :
          CodigoComum(disco.municipios.linhas[k].codigo_ibge))
      => \A k \in 1..Len(municipios) :
           Len(municipios[k].CD_MUN) = LARGURA_COD /\ AllDigits(municipios[k].CD_MUN)

\* C9: the count main prints after anexar_ibge_a_precos is the number of
\* price rows that matched a registry entry; it is lower than the number of
\* rows whenever a row is unresolved.
C9_PrintedCount ==
    Anexado =>
      /\ impresso = Cardinality({k \in 1..Len(precos_ibge) : ~SemRegistro(precos_ibge[k])})
      /\ (\E k \in 1..Len(precos_ibge) : SemRegistro(precos_ibge[k]))
           => impresso < Len(precos_ibge)

Filtrado == pcm \in {"filtrado", "agregado", "done"}

\* the diagnosis code, trimmed and upper-cased, starts with F32 or F41
CodigoF32F41(d) ==
    /\ ~isna(d)
    /\ LET t == Upper(Strip(d))
       IN /\ Len(t) >= 3
          /\ << t[1], t[2], t[3] >> \in { << "F", "3", "2" >>, << "F", "4", "1" >> }

\* C10: filtrar_f32_f41 keeps a row if and only if its diagnosis code, after
\* trimming and upper-casing, starts with F32 or F41 (F321 and F410 kept,
\* F200 and an absent code dropped); the rows kept are those rows, in order.
C10_PrefixFilter ==
    Filtrado =>
      LET kept == SelectSeq(ment, LAMBDA r : CodigoF32F41(r.DIAG_ESP))
      IN /\ Len(ment_filt) = Len(kept)
         /\ \A i \in 1..Len(kept) :
              /\ ment_filt[i].ID_MUNICIP = kept[i].ID_MUNICIP
              /\ ment_filt[i].NU_ANO = kept[i].NU_ANO
              /\ ment_filt[i].DIAG_ESP = Upper(Strip(kept[i].DIAG_ESP))
         /\ \A k \in 1..Len(ment) :
              /\ ment[k].DIAG_ESP \in { << "F", "3", "2", "1" >>, << "F", "4", "1", "0" >> }
                   => \E i \in 1..Len(ment_filt) : ment_filt[i].DIAG_ESP = ment[k].DIAG_ESP
         /\ \A i \in 1..Len(ment_filt) :
              ment_filt[i].DIAG_ESP \notin { << "F", "2", "0", "0" >>, << "N", "A", "N" >> }

\* a filtered table that kept a lower-case, padded code and dropped a row
\* before it
C10_Witness ==
    /\ pcm = "filtrado"
    /\ Len(ment) = 2
    /\ Len(ment_filt) = 1
    /\ isna(ment[1].DIAG_ESP) \/ ment[1].DIAG_ESP = << "F", "2", "0", "0" >>
    /\ ment[2].DIAG_ESP = << " ", "f", "3", "2", "1", " " >>

(***************************************************************************)
(* Claims about the price parsers                                          *)
(***************************************************************************)
\* d{1,3}(.ddd)*: an integer written with thousands dots
RECURSIVE IsMilhar(_)
IsMilhar(t) ==
    LET n == Len(t)
    IN IF \A k \in 1..n : t[k] # "."
       THEN n >= 1 /\ n <= 3 /\ AllDigits(t)
       ELSE /\ n >= 5
            /\ t[n - 3] = "."
            /\ AllDigits(SubSeq(t, n - 2, n))
            /\ IsMilhar(SubSeq(t, 1, n - 4))

IsInteiroBR(t) == (Len(t) >= 1 /\ AllDigits(t)) \/ IsMilhar(t)

\* the position of the first comma, 0 if there is none
CommaPos(t) ==
    IF \E i \in 1..Len(t) : t[i] = ","
    THEN CHOOSE i \in 1..Len(t) : t[i] = "," /\ \A j \in 1..(i - 1) : t[j] # ","
    ELSE 0

\* a Brazilian-formatted amount: an integer part, with or without thousands
\* dots, and optionally a comma and one or two decimals
IsValorBR(t) ==
    LET c == CommaPos(t)
    IN IF c = 0 THEN IsInteiroBR(t)
       ELSE /\ IsInteiroBR(SubSeq(t, 1, c - 1))
            /\ Len(t) - c \in {1, 2}
            /\ AllDigits(SubSeq(t, c + 1, Len(t)))

\* the number a Brazilian-formatted amount denotes
ValorBR(t) ==
    LET c == CommaPos(t)
        inteiro == SelectSeq(IF c = 0 THEN t ELSE SubSeq(t, 1, c - 1), LAMBDA x : x # ".")
        dec == IF c = 0 THEN << >> ELSE SubSeq(t, c + 1, Len(t))
    IN Frac(IntVal(inteiro) * Pow10(Len(dec)) + IntVal(dec), Pow10(Len(dec)))

\* the text holds, at i, the first R$ and after it the amount t[j..m], which
\* is not continued by a digit and is the longest amount starting at j
QuantiaEm(t, i, j, m) ==
    /\ ~isna(t)
    /\ i >= 1 /\ i + 1 < j /\ j <= m /\ m <= Len(t)
    /\ t[i] = "R" /\ t[i + 1] = "$"
    /\ \A k \in 1..(i - 1) : t[k] # "$"
    /\ \A k \in (i + 2)..(j - 1) : IsSpace(t[k])
    /\ IsValorBR(SubSeq(t, j, m))
    /\ m < Len(t) => t[m + 1] \notin Digits
    /\ \A m2 \in (m + 1)..Len(t) : ~IsValorBR(SubSeq(t, j, m2))

\* the text has an R$ (r$ too for the scraper that accepts it) followed by
\* a run of digits, dots and commas that holds a digit
TemCifraComDigito(qual, t) ==
    LET erres == IF qual = "boaconsulta" THEN {"R"} ELSE {"R", "r"}
    IN /\ ~isna(t)
       /\ \E i \in MatchStarts(t, erres) :
            LET j == SkipSpaces(t, i + 2)
            IN \E k \in j..RunEnd(t, j) : t[k] \in Digits

\* C11: for a text that holds R$ followed by a Brazilian-formatted amount the
\* parser returns that amount (thousands dots removed, the comma read as the
\* decimal separator); for a text with no R$ <digits> part, an empty text
\* and an absent text it returns None, never 0.
C11_ParsePrice ==
    pcp = "done" =>
      /\ \A i, j, m \in 1..(IF isna(texto) THEN 0 ELSE Len(texto)) :
           QuantiaEm(texto, i, j, m)
             => lido = [none |-> FALSE, v |-> ValorBR(SubSeq(texto, j, m))]
      /\ ~TemCifraComDigito(scraper, texto) => lido = PrecoNone

(***************************************************************************)
(* Claims about the BoaConsulta scrapers                                   *)
(***************************************************************************)
\* C14: at every moment of a run, interrupted or not, the output CSV at its
\* final path is absent, or is the file as it was before the run, or holds
\* the complete result of the finished run; a reader never finds a file with
\* only part of what the run writes.
C14_NoPartialFile ==
    csv.existe => (csv = csv0 \/ pcs = "fim")

\* C20: a request for a profile page is sent only while no cache file exists
\* for its profile id: a profile already in the cache, from this run or an
\* earlier one, is never requested again.
C20_CachedNeverRequested ==
    \A k \in 1..Len(pedidos) : ~pedidos[k].em_cache

\* a required input of the merge script is missing
FaltaEntrada ==
    \/ ~disco.precos.existe
    \/ ~disco.municipios.existe
    \/ \A f \in 1..Len(disco.ment) : ~disco.ment[f].existe

\* C15: in both merge scripts, when output/precos_por_municipio.csv or
\* BR_Municipios_2023.csv is absent, or no MENTBR file could be loaded, main
\* stops with an error at the step that needs the input and never finishes,
\* and when it stops no output file of the script was created or modified.
C15_FailFast ==
    pcm # "parado" =>
      /\ ~disco.precos.existe => pcm \in {"start", "erro"}
      /\ ~disco.municipios.existe => pcm \in {"start", "precos", "erro"}
      /\ (\A f \in 1..Len(disco.ment) : ~disco.ment[f].existe)
           => pcm \in {"start", "precos", "municipios", "anexado", "caps", "erro"}
      /\ (FaltaEntrada \/ pcm = "erro") => ~saida.gravada

\* a run that stopped at carregar_mentais, the last of the three checks,
\* with the output of an earlier run on disk
C15_Witness ==
    /\ pcm = "erro"
    /\ disco.precos.existe
    /\ disco.municipios.existe
    /\ \A f \in 1..Len(disco.ment) : ~disco.ment[f].existe
    /\ saida = SaidaAnterior

RECURSIVE SomaContagens(_, _)
SomaContagens(f, S) ==
    IF S = {} THEN 0
    ELSE LET u == CHOOSE x \in S : TRUE IN f[u] + SomaContagens(f, S \ {u})

\* C17: the state tables are complete (27 federative units), so in the
\* per-state count of notifications every notification that carries a valid
\* state code is counted under a state: none is left without a state and
\* dropped.
C17_NoStateDropped ==
    pcu = "done" =>
      SomaContagens(ment_summary, DOMAIN ment_summary)
        = Cardinality({k \in 1..Len(sg_uf) : sg_uf[k] \in CodigosUF})


\* the registry holds no two entries with the same (name, state) join key
RegistroSemDuplicata ==
    LET r == mun_para_join(script, municipios)
    IN \A i, j \in 1..Len(r) :
         i # j => ~(r[i].nome_norm = r[j].nome_norm /\ r[i].SIGLA_UF = r[j].SIGLA_UF)

\* the CAPS table holds at most one row per municipality
CapsUmaPorMunicipio ==
    \A i, j \in 1..Len(caps) : i # j => caps[i].CD_MUN # caps[j].CD_MUN

\* the codes of the registry entries with the keys of the price row l
MunicipioDe(l) ==
    LET r == mun_para_join(script, municipios)
    IN {r[k].CD_MUN : k \in {n \in 1..Len(r) : l.cidade_norm = r[n].nome_norm
                                                /\ l.uf_oficial = r[n].SIGLA_UF}}

\* the F32/F41 notifications of the municipalities cods in the year a
CasosDe(cods, a) ==
    Cardinality({k \in 1..Len(ment_filt) :
                   /\ ~isna(ment_filt[k].ID_MUNICIP)
                   /\ zfill(astype_str(ment_filt[k].ID_MUNICIP), LARGURA_COD) \in cods
                   /\ ment_filt[k].NU_ANO = a})

\* the years the script reports in which the municipality of the price row l
\* has F32/F41 cases
AnosDe(l) ==
    {a \in {ment_filt[k].NU_ANO : k \in 1..Len(ment_filt)} \ {NumNaN} :
       /\ script = "exemplo" => a = ano_analise
       /\ CasosDe(MunicipioDe(l), a) > 0}

\* the output rows of the i-th price row
LinhasDe(i) == {k \in 1..Len(base) : SoPreco(base[k]) = precos[i]}

\* C18: with a registry without duplicate (name, state) keys and at most one
\* CAPS row per municipality, the single-year script outputs one row per
\* price row, with the 2023 case count of its municipality or null and never
\* another year's count; the multi-year script outputs, for each price row,
\* one row per year in which its municipality has F32/F41 cases, or one row
\* with null year and count when it has none.
C18_OutputShape ==
    (pcm = "done" /\ RegistroSemDuplicata /\ CapsUmaPorMunicipio) =>
      \A i \in 1..Len(precos) :
        IF AnosDe(precos[i]) = {}
        THEN /\ Cardinality(LinhasDe(i)) = 1
             /\ \A k \in LinhasDe(i) :
                  base[k].ano = NumNaN /\ base[k].casos_f32_f41 = NumNaN
        ELSE /\ Cardinality(LinhasDe(i)) = Cardinality(AnosDe(precos[i]))
             /\ \A a \in AnosDe(precos[i]) :
                  \E k \in LinhasDe(i) :
                    /\ base[k].ano = a
                    /\ base[k].casos_f32_f41 = CasosDe(MunicipioDe(precos[i]), a)

(***************************************************************************)
(* Claims about normalize_str                                              *)
(***************************************************************************)
\* a text: a sequence of characters, not the missing value
IsTexto(t) == t \in Seq(AlfabetoNorm \cup {"a", "c"})

\* C19: normalize_str is total and idempotent: every input, the empty text
\* and the missing value included, gives a text (the empty text for the
\* empty and the missing input), and normalizing that text again gives it
\* back unchanged.
C19_Idempotent ==
    /\ pcn \in {"once", "twice"} =>
          /\ IsTexto(norm1)
          /\ (isna(entrada) \/ entrada = << >>) => norm1 = << >>
    /\ pcn = "twice" => norm2 = norm1

\* a text with outer spaces, a run of inner spaces, a capital and accents
\* has been normalized twice
C19_Witness ==
    /\ pcn = "twice"
    /\ entrada = << " ", "Á", " ", " ", "ç" >>
    /\ norm1 = << "a", " ", "c" >>
    /\ norm2 = norm1


\* C21: after any number of successive runs appending to the same output
\* file, the file holds at most one row for each (nome, url) pair: a pair in
\* the file at the start of a run, or queued earlier in the run, is not
\* written again.
C21_OneRowPerPair ==
    \A i, j \in 1..Len(csv.linhas) :
      (csv.linhas[i].nome = csv.linhas[j].nome /\ csv.linhas[i].url = csv.linhas[j].url)
        => i = j


(***************************************************************************)
(* Claims about carregar_mentais and agregar_mentais_por_municipio_ano     *)
(***************************************************************************)
\* the rows of the existing MENTBR files before file f
RECURSIVE LinhasAntes(_, _)
LinhasAntes(arqs, f) ==
    IF f <= 1 THEN 0
    ELSE (IF arqs[f - 1].existe THEN Len(arqs[f - 1].linhas) ELSE 0)
           + LinhasAntes(arqs, f - 1)

\* C22: carregar_mentais raises RuntimeError exactly when none of the five
\* yearly files exists; otherwise it skips the missing files and returns
\* the rows of the existing ones stacked in file order.
C22_SkipMissing ==
    [][pcm = "caps" =>
         IF \A f \in 1..Len(disco.ment) : ~disco.ment[f].existe
         THEN pcm' = "erro"
         ELSE /\ pcm' = "mentais"
              /\ Len(ment') = LinhasAntes(disco.ment, Len(disco.ment) + 1)
              /\ \A f \in 1..Len(disco.ment) :
                   disco.ment[f].existe =>
                     \A k \in 1..Len(disco.ment[f].linhas) :
                       LET r == ment'[LinhasAntes(disco.ment, f) + k]
                       IN /\ r.DIAG_ESP = disco.ment[f].linhas[k].DIAG_ESP
                          /\ r.NU_ANO = disco.ment[f].linhas[k].NU_ANO
                          /\ isna(r.ID_MUNICIP) = isna(disco.ment[f].linhas[k].ID_MUNICIP)]_vars

\* two yearly files were stacked while the other three are missing
C22_Witness ==
    /\ pcm = "mentais"
    /\ Cardinality({f \in 1..Len(disco.ment) : disco.ment[f].existe}) = 2
    /\ ~disco.ment[1].existe
    /\ Len(ment) = 2


\* C25: within one run no profile id is downloaded more than once, also when
\* two cards of one listing page carry the same profile URL under different
\* names and their workers both find the cache empty; and no worker reads a
\* cache file that another worker is still writing.
C25_NoDoubleDownload ==
    /\ \A i, j \in 1..Len(pedidos) : pedidos[i].id = pedidos[j].id => i = j
    /\ \A t \in DOMAIN tarefas :
         ~(tarefas[t].estado \in {"pronta", "coletada"} /\ tarefas[t].html = PaginaParcial)


\* the futures of the page that have not been collected
Pendentes == {t \in DOMAIN tarefas : tarefas[t].estado # "coletada"}

\* C26: when the loop leaves a listing page, every extraction submitted for
\* it has finished and the row of each priced result has been written, so
\* no extraction is running when the next page is requested; rows are
\* written one at a time by the coordinating thread as it collects a
\* finished future; 'seen' changes only while no pool worker exists.
C26_PageBarrier ==
    [][/\ (pcs = "coletando" /\ pcs' \in {"pagina", "fechar"}) =>
            /\ Cardinality(Pendentes) = 1
            /\ \A t \in Pendentes :
                 /\ tarefas[t].estado = "pronta"
                 /\ ~sem_preco(tarefas[t].resultado.preco) =>
                      buffer'.linhas = Append(buffer.linhas,
                                              linha_csv(tarefas[t].perfil,
                                                        tarefas[t].resultado))
            /\ tarefas' = << >>
       /\ pcs = "pagina" => tarefas = << >>
       /\ Len(buffer'.linhas) > Len(buffer.linhas) =>
            /\ pcs = "coletando"
            /\ \E t \in Pendentes :
                 /\ tarefas[t].estado = "pronta"
                 /\ buffer'.linhas = Append(buffer.linhas,
                                            linha_csv(tarefas[t].perfil, tarefas[t].resultado))
       /\ seen' # seen => tarefas = << >>]_vars

\* the second listing page of a city is about to be requested after the two
\* extractions of the first page were collected and a row was written
C26_Witness ==
    /\ pcs = "pagina"
    /\ pagina = 2
    /\ execucao = 1
    /\ listadas # << >>
    /\ listadas[Len(listadas)].novos = 2
    /\ Len(buffer.linhas) + Len(csv.linhas) >= 1
    /\ csv0 = CsvAusente


\* the step collects the future t
Coletada(t) ==
    /\ pcs = "coletando"
    /\ pcs' # "interrompido"
    /\ tarefas[t].estado = "pronta"
    /\ (t \notin DOMAIN tarefas' \/ tarefas'[t].estado = "coletada")

\* C27: a profile whose download fails gets no cache file and no CSV row;
\* the failure changes nothing for the other profiles of the page and the
\* loop goes on to the following pages and cities as after any other
\* profile; the (nome, url) pair of the profile stays in 'seen' for the
\* rest of the run.
C27_FailedDownload ==
    [][/\ \A t \in DOMAIN tarefas :
            /\ (/\ tarefas[t].estado = "baixar"
                /\ t \in DOMAIN tarefas'
                /\ tarefas'[t].estado = "pronta") =>
                 /\ cache' = cache
                 /\ tarefas'[t].resultado.preco.none
                 /\ pcs' = pcs
                 /\ \A u \in DOMAIN tarefas \ {t} : tarefas'[u] = tarefas[u]
                 /\ << tarefas[t].perfil.nome, tarefas[t].perfil.url >> \in seen'
            /\ (Coletada(t) /\ tarefas[t].resultado.preco.none) =>
                 /\ buffer' = buffer
                 /\ pcs' \in {"coletando", "pagina", "fechar"}
                 /\ pcs' = "coletando" =>
                      \A u \in DOMAIN tarefas \ {t} : tarefas'[u] = tarefas[u]
       /\ pcs \in {"pagina", "coletando", "fechar"} => seen \subseteq seen']_vars

\* the download of Ana's profile failed on the first page: there is no cache
\* file and no row for it, its pair is in 'seen', and the run has moved on
\* to the second page
C27_Witness ==
    /\ pcs = "pagina"
    /\ pagina = 2
    /\ execucao = 1
    /\ csv0 = CsvAusente
    /\ \E k \in 1..Len(pedidos) : pedidos[k].id = "ana"
    /\ "ana" \notin DOMAIN cache
    /\ << "Ana", << "especialista", "ana" >> >> \in seen
    /\ buffer.linhas = << >>
    /\ csv.linhas = << >>


\* the profiles listed on pages of city c after its first page that are not
\* in 'seen'
PerfisPerdidos(c) ==
    UNION {{<< site.listagens[c][p][k].nome, site.listagens[c][p][k].url >> :
               k \in 1..Len(site.listagens[c][p])} : p \in 2..Len(site.listagens[c])} \ seen

LinhasEscritas == csv.linhas \o buffer.linhas

\* the rows parse_listing_html returns for every search page of the site,
\* and the rows collected from them, carry a price read from a profile link
\* of the page; a link whose every card has no readable price is not returned
DocComPreco ==
    /\ \A c \in 1..NumCidades, p \in 1..MaxPaginasDoc :
         LET ents == pagina_doc(dsite, c, p)
             rows == parse_listing_html(ents)
         IN /\ \A k \in 1..Len(rows) :
                 /\ ~rows[k].preco.none
                 /\ \E j \in 1..Len(ents) :
                      /\ ents[j].perfil
                      /\ ents[j].url = rows[k].url
                      /\ preco_do_bloco(ents[j].texto).valor = rows[k].preco
            /\ \A j \in 1..Len(ents) :
                 (\A i \in 1..Len(ents) :
                    ents[i].url = ents[j].url => preco_do_bloco(ents[i].texto).valor.none)
                 => \A k \in 1..Len(rows) : rows[k].url # ents[j].url
    /\ \A k \in 1..Len(all_rows) : ~all_rows[k].preco.none
    /\ \A k \in 1..Len(doc_csv.linhas) : ~doc_csv.linhas[k].preco.none

\* C23: every row the scrapers write carries a numeric price.  In the
\* BoaConsulta scraper a row is written only when a future is collected
\* whose result has a price, which is the price parsed from the profile
\* page; a profile whose page shows no price, or whose extraction failed,
\* adds no row.  In the Doctoralia scraper parse_listing_html returns no
\* entry without a parseable price.
C23_RowsCarryPrice ==
    /\ [](pcd # "parado" => DocComPreco)
    /\ [][pcs # "parado" =>
            /\ \A k \in 1..Len(LinhasEscritas') : LinhasEscritas'[k].preco.n > 0
            /\ Len(LinhasEscritas') > Len(LinhasEscritas) =>
                 \E t \in DOMAIN tarefas : Coletada(t)
            /\ \A t \in DOMAIN tarefas :
                 Coletada(t) =>
                   IF tarefas[t].resultado.preco.none
                   THEN LinhasEscritas' = LinhasEscritas
                   ELSE /\ tarefas[t].resultado.preco =
                             parse_price(site.perfis[get_profile_id(tarefas[t].perfil.url)].preco_txt)
                        /\ Len(LinhasEscritas') = Len(LinhasEscritas) + 1
                        /\ LinhasEscritas'[Len(LinhasEscritas')].preco =
                             tarefas[t].resultado.preco.v
                        /\ LinhasEscritas'[Len(LinhasEscritas')].url = tarefas[t].perfil.url]_vars

\* the page of Bia, which shows no price, was downloaded and cached and her
\* future collected: the run is over and the new file has a row of this run
\* and no row for her
C23_Witness ==
    /\ pcs = "fim"
    /\ execucao = 1
    /\ csv0 = CsvAusente
    /\ "bia" \in DOMAIN cache
    /\ cache["bia"] = PerfisDoSite["bia"]
    /\ << "Bia", << "especialista", "bia" >> >> \in seen
    /\ csv.linhas # << >>
    /\ \A k \in 1..Len(csv.linhas) : csv.linhas[k].nome # "Bia"

\* the (code, year) pairs of the rows given to
\* agregar_mentais_por_municipio_ano, the code as the function writes it
ParesDeEntrada ==
    {<< zfill(astype_str(ment_filt[k].ID_MUNICIP), LARGURA_COD), ment_filt[k].NU_ANO >> :
       k \in 1..Len(ment_filt)}

\* the sum of casos_f32_f41 over the rows of ment_agg
SomaCasos ==
    LET RECURSIVE soma(_)
        soma(i) == IF i = 0 THEN 0 ELSE ment_agg[i].casos_f32_f41 + soma(i - 1)
    IN soma(Len(ment_agg))

MesmaChave(i) ==
    {k \in ComPreco : dup_key(LinhaPreparada(df_all[k])) = dup_key(df_prepared[i])}

\* C24: the professional-level table has no two rows with the same (nome,
\* cidade_oficial, uf_oficial, tipo_profissional, preco); of the priced rows
\* with the same such key the first in concatenation order is the one kept,
\* a Doctoralia row before a BoaConsulta row, and every key is kept once;
\* so each group's qtd_profissionais is its number of distinct keys.
C24_FirstDuplicateKept ==
    /\ pc \in {"preparado", "done"} =>
         /\ \A i, j \in 1..Len(df_prepared) :
              dup_key(df_prepared[i]) = dup_key(df_prepared[j]) => i = j
         /\ \A k \in ComPreco :
              \E i \in 1..Len(df_prepared) :
                dup_key(df_prepared[i]) = dup_key(LinhaPreparada(df_all[k]))
         /\ \A i \in 1..Len(df_prepared) :
              /\ MesmaChave(i) # {}
              /\ LET k == CHOOSE x \in MesmaChave(i) : \A y \in MesmaChave(i) : x <= y
                 IN df_prepared[i] = LinhaPreparada(df_all[k])
              /\ (\E k \in MesmaChave(i) : df_all[k].fonte = "doctoralia")
                   => df_prepared[i].fonte = "doctoralia"
         /\ \A i, j \in 1..Len(df_prepared) :
              i < j => \E a \in MesmaChave(i) : \A b \in MesmaChave(j) : a < b
    /\ pc = "done" =>
         \A g \in grp :
           g.qtd_profissionais =
             Cardinality({dup_key(LinhaPreparada(df_all[k])) :
                            k \in {x \in ComPreco :
                                     grupo_key(LinhaPreparada(df_all[x]))
                                       = << g.cidade_oficial, g.uf_oficial, g.cidade_norm,
                                            g.tipo_profissional >>}})

\* a professional is in a Doctoralia file and in a BoaConsulta file with the
\* same name, city, type and price: the table holds the Doctoralia row only
\* and the group counts one professional
C24_Witness ==
    /\ pc = "done"
    /\ \E a, b \in ComPreco :
         /\ a < b
         /\ df_all[a].fonte = "doctoralia"
         /\ df_all[b].fonte = "boaconsulta"
         /\ dup_key(LinhaPreparada(df_all[a])) = dup_key(LinhaPreparada(df_all[b]))
    /\ Len(df_prepared) = 1
    /\ df_prepared[1].fonte = "doctoralia"
    /\ \A g \in grp : g.qtd_profissionais = 1

(***************************************************************************)
(* Claim about the termination of the scrapers                             *)
(***************************************************************************)
\* the requests of a log are made city by city in list order starting with
\* the first city, the pages of a city from 1 upwards without a gap, and at
\* most maxp pages per city
EmOrdemDeLista(log, maxp) ==
    /\ \A i \in 1..Len(log) : log[i].cidade \in 1..NumCidades /\ log[i].pagina \in 1..maxp
    /\ log # << >> => log[1].cidade = 1 /\ log[1].pagina = 1
    /\ \A i \in 1..(Len(log) - 1) :
         \/ log[i + 1].cidade = log[i].cidade /\ log[i + 1].pagina = log[i].pagina + 1
         \/ log[i + 1].cidade = log[i].cidade + 1 /\ log[i + 1].pagina = 1

\* every city has been visited
TodasVisitadas(log) == log # << >> /\ log[Len(log)].cidade = NumCidades

====
